---- MODULE Spec2Model ----
(***************************************************************************)
(* Work2Word: the Markdown-to-document conversion of                       *)
(* src/electron/fileProcessor.ts (convertToFormat, markdownToParagraphs    *)
(* and the element builders) and the formula transcoder of                 *)
(* src/electron/utils/latexConverter.ts.                                   *)
(*                                                                         *)
(* Strings are sequences of UTF-16 code units.  An ASCII unit is the       *)
(* one-character string of that character; any other unit, and the        *)
(* backtick, is written "U+XXXX" with its code point.                      *)
(***************************************************************************)
EXTENDS Integers, Sequences, FiniteSets, TLC

\* ------------------------------------------------------------------------
\* String primitives (String.prototype.startsWith / indexOf / slice / join)
\* ------------------------------------------------------------------------

\* s.startsWith(p, i - 1): p occurs in s at the 1-based position i.
HasAt(s, i, p) ==
  /\ i >= 1
  /\ i + Len(p) - 1 <= Len(s)
  /\ SubSeq(s, i, i + Len(p) - 1) = p

\* The first position j >= i with s[j] in S, or 0 when there is none.
IndexFrom(s, i, S) ==
  IF \E j \in i..Len(s) : s[j] \in S
  THEN CHOOSE j \in i..Len(s) : s[j] \in S /\ \A k \in i..(j - 1) : s[k] \notin S
  ELSE 0

\* The length of the maximal run of characters of S that starts at i.
RunLen(s, i, S) ==
  LET stop == IndexFrom(s, i, (({s[k] : k \in 1..Len(s)}) \ S))
  IN  IF i > Len(s) THEN 0 ELSE IF stop = 0 THEN Len(s) - i + 1 ELSE stop - i

\* parts.join(''): the concatenation of a sequence of strings.
RECURSIVE Join(_)
Join(parts) ==
  IF parts = <<>> THEN <<>> ELSE Head(parts) \o Join(Tail(parts))

\* The characters \s matches.
Whitespace == {" ", "\t", "\n", "\r"}

\* String.prototype.trim
RECURSIVE trim(_)
trim(s) ==
  IF s = <<>> THEN s
  ELSE IF s[1] \in Whitespace THEN trim(Tail(s))
  ELSE IF s[Len(s)] \in Whitespace THEN trim(SubSeq(s, 1, Len(s) - 1))
  ELSE s

\* s.replace(new RegExp(literal p, 'g'), r): every non-overlapping occurrence
\* of the literal p, scanning left to right from position i.
RECURSIVE ReplaceLiteral(_, _, _, _)
ReplaceLiteral(s, i, p, r) ==
  IF i > Len(s) THEN <<>>
  ELSE IF HasAt(s, i, p) THEN r \o ReplaceLiteral(s, i + Len(p), p, r)
  ELSE <<s[i]>> \o ReplaceLiteral(s, i + 1, p, r)

\* ------------------------------------------------------------------------
\* The formula transcoder
\* ------------------------------------------------------------------------

latexToUnicode ==
  << <<<<"\\", "a", "l", "p", "h", "a">>, "U+03B1">>,
     <<<<"\\", "b", "e", "t", "a">>, "U+03B2">>,
     <<<<"\\", "g", "a", "m", "m", "a">>, "U+03B3">>,
     <<<<"\\", "d", "e", "l", "t", "a">>, "U+03B4">>,
     <<<<"\\", "e", "p", "s", "i", "l", "o", "n">>, "U+03B5">>,
     <<<<"\\", "z", "e", "t", "a">>, "U+03B6">>,
     <<<<"\\", "e", "t", "a">>, "U+03B7">>,
     <<<<"\\", "t", "h", "e", "t", "a">>, "U+03B8">>,
     <<<<"\\", "i", "o", "t", "a">>, "U+03B9">>,
     <<<<"\\", "k", "a", "p", "p", "a">>, "U+03BA">>,
     <<<<"\\", "l", "a", "m", "b", "d", "a">>, "U+03BB">>,
     <<<<"\\", "m", "u">>, "U+03BC">>,
     <<<<"\\", "n", "u">>, "U+03BD">>,
     <<<<"\\", "x", "i">>, "U+03BE">>,
     <<<<"\\", "p", "i">>, "U+03C0">>,
     <<<<"\\", "r", "h", "o">>, "U+03C1">>,
     <<<<"\\", "s", "i", "g", "m", "a">>, "U+03C3">>,
     <<<<"\\", "t", "a", "u">>, "U+03C4">>,
     <<<<"\\", "u", "p", "s", "i", "l", "o", "n">>, "U+03C5">>,
     <<<<"\\", "p", "h", "i">>, "U+03C6">>,
     <<<<"\\", "c", "h", "i">>, "U+03C7">>,
     <<<<"\\", "p", "s", "i">>, "U+03C8">>,
     <<<<"\\", "o", "m", "e", "g", "a">>, "U+03C9">>,
     <<<<"\\", "G", "a", "m", "m", "a">>, "U+0393">>,
     <<<<"\\", "D", "e", "l", "t", "a">>, "U+0394">>,
     <<<<"\\", "T", "h", "e", "t", "a">>, "U+0398">>,
     <<<<"\\", "L", "a", "m", "b", "d", "a">>, "U+039B">>,
     <<<<"\\", "X", "i">>, "U+039E">>,
     <<<<"\\", "P", "i">>, "U+03A0">>,
     <<<<"\\", "S", "i", "g", "m", "a">>, "U+03A3">>,
     <<<<"\\", "P", "h", "i">>, "U+03A6">>,
     <<<<"\\", "P", "s", "i">>, "U+03A8">>,
     <<<<"\\", "O", "m", "e", "g", "a">>, "U+03A9">>,
     <<<<"\\", "t", "i", "m", "e", "s">>, "U+00D7">>,
     <<<<"\\", "d", "i", "v">>, "U+00F7">>,
     <<<<"\\", "p", "m">>, "U+00B1">>,
     <<<<"\\", "m", "p">>, "U+2213">>,
     <<<<"\\", "c", "d", "o", "t">>, "U+00B7">>,
     <<<<"\\", "a", "s", "t">>, "U+2217">>,
     <<<<"\\", "s", "t", "a", "r">>, "U+22C6">>,
     <<<<"\\", "l", "e", "q">>, "U+2264">>,
     <<<<"\\", "g", "e", "q">>, "U+2265">>,
     <<<<"\\", "n", "e", "q">>, "U+2260">>,
     <<<<"\\", "a", "p", "p", "r", "o", "x">>, "U+2248">>,
     <<<<"\\", "e", "q", "u", "i", "v">>, "U+2261">>,
     <<<<"\\", "s", "i", "m">>, "U+223C">>,
     <<<<"\\", "s", "i", "m", "e", "q">>, "U+2243">>,
     <<<<"\\", "l", "l">>, "U+226A">>,
     <<<<"\\", "g", "g">>, "U+226B">>,
     <<<<"\\", "s", "u", "b", "s", "e", "t">>, "U+2282">>,
     <<<<"\\", "s", "u", "p", "s", "e", "t">>, "U+2283">>,
     <<<<"\\", "s", "u", "b", "s", "e", "t", "e", "q">>, "U+2286">>,
     <<<<"\\", "s", "u", "p", "s", "e", "t", "e", "q">>, "U+2287">>,
     <<<<"\\", "i", "n">>, "U+2208">>,
     <<<<"\\", "n", "i">>, "U+220B">>,
     <<<<"\\", "n", "o", "t", "i", "n">>, "U+2209">>,
     <<<<"\\", "c", "a", "p">>, "U+2229">>,
     <<<<"\\", "c", "u", "p">>, "U+222A">>,
     <<<<"\\", "l", "a", "n", "d">>, "U+2227">>,
     <<<<"\\", "l", "o", "r">>, "U+2228">>,
     <<<<"\\", "n", "e", "g">>, "U+00AC">>,
     <<<<"\\", "f", "o", "r", "a", "l", "l">>, "U+2200">>,
     <<<<"\\", "e", "x", "i", "s", "t", "s">>, "U+2203">>,
     <<<<"\\", "p", "a", "r", "t", "i", "a", "l">>, "U+2202">>,
     <<<<"\\", "n", "a", "b", "l", "a">>, "U+2207">>,
     <<<<"\\", "i", "n", "f", "t", "y">>, "U+221E">>,
     <<<<"\\", "e", "m", "p", "t", "y", "s", "e", "t">>, "U+2205">>,
     <<<<"\\", "s", "u", "m">>, "U+2211">>,
     <<<<"\\", "p", "r", "o", "d">>, "U+220F">>,
     <<<<"\\", "i", "n", "t">>, "U+222B">>,
     <<<<"\\", "s", "q", "r", "t">>, "U+221A">>,
     <<<<"\\", "a", "n", "g", "l", "e">>, "U+2220">>,
     <<<<"\\", "p", "e", "r", "p">>, "U+22A5">>,
     <<<<"\\", "p", "a", "r", "a", "l", "l", "e", "l">>, "U+2225">>,
     <<<<"\\", "t", "r", "i", "a", "n", "g", "l", "e">>, "U+25B3">>,
     <<<<"\\", "s", "q", "u", "a", "r", "e">>, "U+25A1">>,
     <<<<"\\", "c", "i", "r", "c">>, "U+2218">>,
     <<<<"\\", "r", "i", "g", "h", "t", "a", "r", "r", "o", "w">>, "U+2192">>,
     <<<<"\\", "l", "e", "f", "t", "a", "r", "r", "o", "w">>, "U+2190">>,
     <<<<"\\", "R", "i", "g", "h", "t", "a", "r", "r", "o", "w">>, "U+21D2">>,
     <<<<"\\", "L", "e", "f", "t", "a", "r", "r", "o", "w">>, "U+21D0">>,
     <<<<"\\", "l", "e", "f", "t", "r", "i", "g", "h", "t", "a", "r", "r", "o", "w">>, "U+2194">>,
     <<<<"\\", "L", "e", "f", "t", "r", "i", "g", "h", "t", "a", "r", "r", "o", "w">>, "U+21D4">>,
     <<<<"\\", "u", "p", "a", "r", "r", "o", "w">>, "U+2191">>,
     <<<<"\\", "d", "o", "w", "n", "a", "r", "r", "o", "w">>, "U+2193">>,
     <<<<"\\", "l", "d", "o", "t", "s">>, "U+2026">>,
     <<<<"\\", "c", "d", "o", "t", "s">>, "U+22EF">>,
     <<<<"\\", "v", "d", "o", "t", "s">>, "U+22EE">>,
     <<<<"\\", "d", "d", "o", "t", "s">>, "U+22F1">>,
     <<<<"\\", "p", "r", "i", "m", "e">>, "U+2032">>,
     <<<<"\\", "d", "e", "g", "r", "e", "e">>, "U+00B0">>,
     <<<<"\\", "%">>, "%">> >>

superscripts(c) ==
  CASE c = "0" -> "U+2070"
    [] c = "1" -> "U+00B9"
    [] c = "2" -> "U+00B2"
    [] c = "3" -> "U+00B3"
    [] c = "4" -> "U+2074"
    [] c = "5" -> "U+2075"
    [] c = "6" -> "U+2076"
    [] c = "7" -> "U+2077"
    [] c = "8" -> "U+2078"
    [] c = "9" -> "U+2079"
    [] c = "+" -> "U+207A"
    [] c = "-" -> "U+207B"
    [] c = "=" -> "U+207C"
    [] c = "(" -> "U+207D"
    [] c = ")" -> "U+207E"
    [] c = "n" -> "U+207F"
    [] c = "i" -> "U+2071"
    [] OTHER -> c

subscripts(c) ==
  CASE c = "0" -> "U+2080"
    [] c = "1" -> "U+2081"
    [] c = "2" -> "U+2082"
    [] c = "3" -> "U+2083"
    [] c = "4" -> "U+2084"
    [] c = "5" -> "U+2085"
    [] c = "6" -> "U+2086"
    [] c = "7" -> "U+2087"
    [] c = "8" -> "U+2088"
    [] c = "9" -> "U+2089"
    [] c = "+" -> "U+208A"
    [] c = "-" -> "U+208B"
    [] c = "=" -> "U+208C"
    [] c = "(" -> "U+208D"
    [] c = ")" -> "U+208E"
    [] c = "a" -> "U+2090"
    [] c = "e" -> "U+2091"
    [] c = "o" -> "U+2092"
    [] c = "x" -> "U+2093"
    [] c = "i" -> "U+1D62"
    [] c = "j" -> "U+2C7C"
    [] c = "n" -> "U+2099"
    [] c = "m" -> "U+2098"
    [] OTHER -> c

Digits == {"0", "1", "2", "3", "4", "5", "6", "7", "8", "9"}

\* A faulty variant of ScriptGlyph: every script is looked up in the table
\* of subscripts.
ScriptGlyphAlwaysSub(mark, c) == subscripts(c)

\* The glyph table of a script mark: superscripts for "^", subscripts for "_".
ScriptGlyph(mark, c) == IF mark = "^" THEN superscripts(c) ELSE subscripts(c)

\* content.split('').map(c => table[c] || c).join('')
MapChars(content, mark) == [k \in 1..Len(content) |-> ScriptGlyph(mark, content[k])]

\* The position of the "}" that closes "{([^}]+)}" opened at s[open] = "{",
\* or 0: the group is the maximal run without "}", at least one character.
CloseOfGroup(s, open) ==
  LET close == IndexFrom(s, open + 1, {"}"})
  IN  IF HasAt(s, open, <<"{">>) /\ close > open + 1 THEN close ELSE 0

\* The first replace of a command: every occurrence of cmd becomes unicode.
ReplaceCommand(s, entry) == ReplaceLiteral(s, 1, entry[1], <<entry[2]>>)

\* s contains the command of entry k of the table.
Occurs(s, k) == \E i \in 1..Len(s) : HasAt(s, i, latexToUnicode[k][1])

\* for (const [cmd, unicode] of Object.entries(latexToUnicode)) result = ...
\* from entry k on.  The entries are applied in the order of the table; one
\* whose command does not occur leaves the string as it is, so the loop goes
\* from one entry that occurs to the next.
RECURSIVE ReplaceCommands(_, _)
ReplaceCommands(s, k) ==
  LET next == {n \in k..Len(latexToUnicode) : Occurs(s, n)}
  IN  IF next = {} THEN s
      ELSE LET n == CHOOSE n \in next : \A m \in next : n <= m
           IN  ReplaceCommands(ReplaceCommand(s, latexToUnicode[n]), n + 1)

\* result.replace(/\^{([^}]+)}/g, ...) and result.replace(/_{([^}]+)}/g, ...):
\* mark is "^" or "_"; its glyph table is applied to every character.
RECURSIVE ReplaceBracedScript(_, _, _)
ReplaceBracedScript(s, i, mark) ==
  IF i > Len(s) THEN <<>>
  ELSE LET close == IF s[i] = mark THEN CloseOfGroup(s, i + 1) ELSE 0
       IN  IF close # 0
           THEN MapChars(SubSeq(s, i + 2, close - 1), mark)
                  \o ReplaceBracedScript(s, close + 1, mark)
           ELSE <<s[i]>> \o ReplaceBracedScript(s, i + 1, mark)

\* result.replace(/\^(\d)/g, ...) and result.replace(/_(\d)/g, ...)
RECURSIVE ReplaceDigitScript(_, _, _)
ReplaceDigitScript(s, i, mark) ==
  IF i > Len(s) THEN <<>>
  ELSE IF s[i] = mark /\ i < Len(s) /\ s[i + 1] \in Digits
       THEN <<ScriptGlyph(mark, s[i + 1])>> \o ReplaceDigitScript(s, i + 2, mark)
       ELSE <<s[i]>> \o ReplaceDigitScript(s, i + 1, mark)

\* result.replace(/\\frac{([^}]+)}{([^}]+)}/g, '($1/$2)')
RECURSIVE ReplaceFrac(_, _)
ReplaceFrac(s, i) ==
  IF i > Len(s) THEN <<>>
  ELSE LET c1 == IF HasAt(s, i, <<"\\", "f", "r", "a", "c">>)
                 THEN CloseOfGroup(s, i + 5) ELSE 0
           c2 == IF c1 # 0 THEN CloseOfGroup(s, c1 + 1) ELSE 0
       IN  IF c2 # 0
           THEN <<"(">> \o SubSeq(s, i + 6, c1 - 1) \o <<"/">>
                  \o SubSeq(s, c1 + 2, c2 - 1) \o <<")">> \o ReplaceFrac(s, c2 + 1)
           ELSE <<s[i]>> \o ReplaceFrac(s, i + 1)

\* result.replace(/\\name{([^}]+)}/g, before + '$1' + after), for
\* \sqrt (before "U+221A(", after ")") and \text, \mathrm, \mathbf (bare $1).
RECURSIVE ReplaceWrapper(_, _, _, _, _)
ReplaceWrapper(s, i, name, before, after) ==
  IF i > Len(s) THEN <<>>
  ELSE LET close == IF HasAt(s, i, name) THEN CloseOfGroup(s, i + Len(name)) ELSE 0
       IN  IF close # 0
           THEN before \o SubSeq(s, i + Len(name) + 1, close - 1) \o after
                  \o ReplaceWrapper(s, close + 1, name, before, after)
           ELSE <<s[i]>> \o ReplaceWrapper(s, i + 1, name, before, after)

\* result.replace(/{([^{}]+)}/g, '$1'): one pass, innermost groups only.
RECURSIVE StripBraces(_, _)
StripBraces(s, i) ==
  IF i > Len(s) THEN <<>>
  ELSE LET stop == IF s[i] = "{" THEN IndexFrom(s, i + 1, {"{", "}"}) ELSE 0
       IN  IF stop > i + 1 /\ s[stop] = "}"
           THEN SubSeq(s, i + 1, stop - 1) \o StripBraces(s, stop + 1)
           ELSE <<s[i]>> \o StripBraces(s, i + 1)

\* result.replace(/\s+/g, ' ')
RECURSIVE CollapseWhitespace(_, _)
CollapseWhitespace(s, i) ==
  IF i > Len(s) THEN <<>>
  ELSE IF s[i] \in Whitespace
       THEN <<" ">> \o CollapseWhitespace(s, i + RunLen(s, i, Whitespace))
       ELSE <<s[i]>> \o CollapseWhitespace(s, i + 1)

\* The replacements of latexToUnicodeText, innermost first: the commands of
\* the table, ^{..}, ^d, _{..}, _d, \frac, \sqrt, \text, \mathrm, \mathbf,
\* the remaining braces, the whitespace, then trim.
latexToUnicodeText(latex) ==
  trim(CollapseWhitespace(
    StripBraces(
      ReplaceWrapper(
        ReplaceWrapper(
          ReplaceWrapper(
            ReplaceWrapper(
              ReplaceFrac(
                ReplaceDigitScript(
                  ReplaceBracedScript(
                    ReplaceDigitScript(
                      ReplaceBracedScript(ReplaceCommands(latex, 1), 1, "^"),
                      1, "^"),
                    1, "_"),
                  1, "_"),
                1),
              1, <<"\\", "s", "q", "r", "t">>, <<"U+221A", "(">>, <<")">>),
            1, <<"\\", "t", "e", "x", "t">>, <<>>, <<>>),
          1, <<"\\", "m", "a", "t", "h", "r", "m">>, <<>>, <<>>),
        1, <<"\\", "m", "a", "t", "h", "b", "f">>, <<>>, <<>>),
      1),
    1))

\* ------------------------------------------------------------------------
\* JavaScript values
\* ------------------------------------------------------------------------

\* An optional value: None is undefined, Some(x) is x.
None == <<>>
Some(x) == <<x>>

\* undefined where a name (font family, colour, alignment) is expected.
Undefined == "undefined"

\* undefined and NaN where a number is expected; every other number of the
\* model is a natural number.
UndefinedNum == 0 - 1
NaN == 0 - 2

\* a || b on numbers: 0, NaN and undefined are falsy.
OrNum(a, b) == IF a \in {0, NaN, UndefinedNum} THEN b ELSE a

\* a || b on names: undefined and '' are falsy.
OrName(a, b) == IF a \in {Undefined, ""} THEN b ELSE a

\* a * b: NaN as soon as one operand is undefined or NaN.
Times(a, b) == IF a \in {NaN, UndefinedNum} \/ b \in {NaN, UndefinedNum} THEN NaN ELSE a * b

\* A text that is not a string (a number, an object): truthy, and every
\* String method called on it throws a TypeError.
NonString == <<"#non-string#">>

\* ------------------------------------------------------------------------
\* Styles.  lineHeight is a multiplier with one decimal; it is kept in
\* tenths (15 is 1.5), so that lineHeight * 240 reads lineHeight * 24.
\* ------------------------------------------------------------------------

defaultStyles ==
  [fontFamily |-> "SimSun", fontSize |-> 12, lineHeight |-> 15,
   paragraphSpacing |-> 6, firstLineIndent |-> 2]

defaultHeadingStyles ==
  [heading1 |-> [fontFamily |-> "SimHei", fontSize |-> 22, lineHeight |-> 15,
                 alignment |-> "center", spacingBefore |-> 12, spacingAfter |-> 12],
   heading2 |-> [fontFamily |-> "SimHei", fontSize |-> 16, lineHeight |-> 15,
                 alignment |-> "left", spacingBefore |-> 12, spacingAfter |-> 6],
   heading3 |-> [fontFamily |-> "SimHei", fontSize |-> 14, lineHeight |-> 15,
                 alignment |-> "left", spacingBefore |-> 6, spacingAfter |-> 6],
   heading4 |-> [fontFamily |-> "SimHei", fontSize |-> 12, lineHeight |-> 15,
                 alignment |-> "left", spacingBefore |-> 6, spacingAfter |-> 6]]

\* formatSettings is None or Some(sheet); each slot of a sheet (paragraph,
\* heading1..heading4) is None or Some(style record); a field of a style
\* record that is not set holds Undefined / UndefinedNum.

\* formatSettings?.paragraph || defaultStyles
ParaStyleOf(formatSettings) ==
  IF formatSettings = None \/ formatSettings[1].paragraph = None
  THEN defaultStyles
  ELSE formatSettings[1].paragraph[1]

\* formatSettings?.paragraph, with every field undefined when it is absent
\* (the optional chaining paraStyle?.fontFamily).
OptionalParaStyleOf(formatSettings) ==
  IF formatSettings = None \/ formatSettings[1].paragraph = None
  THEN [fontFamily |-> Undefined, fontSize |-> UndefinedNum, lineHeight |-> UndefinedNum,
        paragraphSpacing |-> UndefinedNum, firstLineIndent |-> UndefinedNum]
  ELSE formatSettings[1].paragraph[1]

\* ------------------------------------------------------------------------
\* Text runs
\* ------------------------------------------------------------------------

\* new TextRun(options): the options given, every other option not set.
TextRun(options) ==
  options @@ [text |-> <<>>, bold |-> FALSE, italics |-> FALSE, strike |-> FALSE,
              color |-> Undefined, underline |-> FALSE, font |-> Undefined,
              size |-> UndefinedNum, shading |-> Undefined, break |-> 0]

\* A Partial<TextRunConfig> with nothing set: the default {} of baseConfig.
EmptyConfig ==
  [font |-> Undefined, size |-> UndefinedNum, bold |-> FALSE, italics |-> FALSE,
   strike |-> FALSE, color |-> Undefined]

\* baseConfig.font || { name: paraStyle.fontFamily || defaultStyles.fontFamily }
RunFont(baseConfig, paraStyle) ==
  OrName(baseConfig.font, OrName(paraStyle.fontFamily, defaultStyles.fontFamily))

\* (paraStyle.fontSize || defaultStyles.fontSize) * 2
ParaHalfPoints(paraStyle) == Times(OrNum(paraStyle.fontSize, defaultStyles.fontSize), 2)

\* baseConfig.size || (paraStyle.fontSize || defaultStyles.fontSize) * 2
RunSize(baseConfig, paraStyle) == OrNum(baseConfig.size, ParaHalfPoints(paraStyle))

\* ------------------------------------------------------------------------
\* parseTextWithFormat: the combined scanner
\* block math $$..$$, inline math $..$, a backtick code span, **bold**
\* ------------------------------------------------------------------------

\* The length of the maximal run of characters not in T that starts at i.
RunLenNot(s, i, T) ==
  LET stop == IndexFrom(s, i, T)
  IN  IF i > Len(s) THEN 0 ELSE IF stop = 0 THEN Len(s) - i + 1 ELSE stop - i

\* (.+?)p: the first position j > from where p occurs, leaving at least one
\* character s[from..j-1] for the lazy group; 0 when there is none.
LazyUntil(s, from, p) ==
  IF \E j \in (from + 1)..Len(s) : HasAt(s, j, p)
  THEN CHOOSE j \in (from + 1)..Len(s) :
         HasAt(s, j, p) /\ \A k \in (from + 1)..(j - 1) : ~HasAt(s, k, p)
  ELSE 0

\* The backtick, a code unit the string syntax of the module cannot hold.
Backtick == "U+0060"

NoMatch == [alt |-> 0, index |-> 0, last |-> 0, group |-> <<>>]

\* The match of an alternative D(.+?)D whose closing delimiter starts at j;
\* no match when j is 0.
DelimitedMatch(s, i, j, alt) ==
  IF j # 0
  THEN [alt |-> alt, index |-> i, last |-> j + 1, group |-> SubSeq(s, i + 2, j - 1)]
  ELSE NoMatch

\* (\$\$(.+?)\$\$) at i
MatchBlockMath(s, i) ==
  DelimitedMatch(s, i,
                 IF HasAt(s, i, <<"$", "$">>) THEN LazyUntil(s, i + 2, <<"$", "$">>) ELSE 0,
                 1)

\* (\$(?!\$)(.+?)(?<!\$)\$) at i: the closing "$" is the first one, at least
\* two places on, that does not follow a "$".
MatchInlineMath(s, i) ==
  LET ends == {j \in (i + 2)..Len(s) : s[j] = "$" /\ s[j - 1] # "$"}
  IN  IF HasAt(s, i, <<"$">>) /\ ~HasAt(s, i + 1, <<"$">>) /\ ends # {}
      THEN LET j == CHOOSE j \in ends : \A k \in ends : j <= k
           IN  [alt |-> 2, index |-> i, last |-> j, group |-> SubSeq(s, i + 1, j - 1)]
      ELSE NoMatch

\* The code span at i, (B+)([^B]+)\5 with B the backtick: the whole run of
\* n backticks, the whole run of m other characters, then n backticks again.
CodeMatch(s, i, n, m) ==
  IF n >= 1 /\ m >= 1 /\ RunLen(s, i + n + m, {Backtick}) >= n
  THEN [alt |-> 3, index |-> i, last |-> i + n + m + n - 1,
        group |-> SubSeq(s, i + n, i + n + m - 1)]
  ELSE NoMatch

MatchCode(s, i) ==
  CodeMatch(s, i, RunLen(s, i, {Backtick}),
            RunLenNot(s, i + RunLen(s, i, {Backtick}), {Backtick}))

\* \*\*(.+?)\*\* at i
MatchBold(s, i) ==
  DelimitedMatch(s, i,
                 IF HasAt(s, i, <<"*", "*">>) THEN LazyUntil(s, i + 2, <<"*", "*">>) ELSE 0,
                 4)

\* The first of the alternatives, in the order of the pattern, that matches.
FirstMatch(blockMath, inlineMath, code, bold) ==
  IF blockMath.alt # 0 THEN blockMath
  ELSE IF inlineMath.alt # 0 THEN inlineMath
  ELSE IF code.alt # 0 THEN code
  ELSE bold

\* A faulty variant of MatchAt: the alternation without the code span.
MatchAtWithoutCode(s, i) ==
  FirstMatch(MatchBlockMath(s, i), MatchInlineMath(s, i), NoMatch, MatchBold(s, i))

\* A faulty variant of MatchAt: the alternation without the bold span, as
\* if the formulas were found in a pass of their own.
MatchAtWithoutBold(s, i) ==
  FirstMatch(MatchBlockMath(s, i), MatchInlineMath(s, i), MatchCode(s, i), NoMatch)

\* The alternation at position i: the first alternative that matches there.
MatchAt(s, i) ==
  FirstMatch(MatchBlockMath(s, i), MatchInlineMath(s, i), MatchCode(s, i), MatchBold(s, i))

\* regex.exec(text) with regex.lastIndex = lastIndex: the match at the
\* smallest position after lastIndex characters.  The positions are tried
\* in turn: the match at the next one, or else the search one place on.
RECURSIVE RegexExec(_, _)
MatchOrSearchOn(match, s, lastIndex) ==
  IF match.alt # 0 THEN match ELSE RegexExec(s, lastIndex + 1)

RegexExec(s, lastIndex) ==
  IF lastIndex >= Len(s) THEN NoMatch
  ELSE MatchOrSearchOn(MatchAt(s, lastIndex + 1), s, lastIndex)

\* The run of plain text between matches and after the last one.
PlainRun(text, baseConfig, paraStyle) ==
  TextRun([text |-> text, font |-> RunFont(baseConfig, paraStyle),
           size |-> RunSize(baseConfig, paraStyle), bold |-> baseConfig.bold,
           italics |-> baseConfig.italics, color |-> baseConfig.color])

\* The run pushed for a match.
MatchRun(match, baseConfig, paraStyle) ==
  IF match.alt \in {1, 2}
  THEN TextRun([text |-> latexToUnicodeText(match.group), font |-> "Cambria Math",
                size |-> RunSize(baseConfig, paraStyle), italics |-> TRUE])
  ELSE IF match.alt = 3
  THEN TextRun([text |-> match.group, font |-> "Courier New",
                size |-> RunSize(baseConfig, paraStyle), shading |-> "F0F0F0"])
  ELSE TextRun([text |-> match.group, bold |-> TRUE,
                font |-> RunFont(baseConfig, paraStyle),
                size |-> RunSize(baseConfig, paraStyle),
                italics |-> baseConfig.italics, color |-> baseConfig.color])

\* One iteration of the while loop for the match just found, or, when exec
\* returned null, the trailing text.
RECURSIVE ScanRuns(_, _, _, _)
\* A faulty variant of RunsOfMatch: the text after the last match is dropped.
RunsOfMatchDroppingTail(text, lastIndex, match, baseConfig, paraStyle) ==
  IF match.alt = 0
  THEN <<>>
  ELSE (IF match.index - 1 > lastIndex
        THEN <<PlainRun(SubSeq(text, lastIndex + 1, match.index - 1), baseConfig, paraStyle)>>
        ELSE <<>>)
       \o <<MatchRun(match, baseConfig, paraStyle)>>
       \o ScanRuns(text, match.last, baseConfig, paraStyle)

RunsOfMatch(text, lastIndex, match, baseConfig, paraStyle) ==
  IF match.alt = 0
  THEN IF lastIndex < Len(text)
       THEN <<PlainRun(SubSeq(text, lastIndex + 1, Len(text)), baseConfig, paraStyle)>>
       ELSE <<>>
  ELSE (IF match.index - 1 > lastIndex
        THEN <<PlainRun(SubSeq(text, lastIndex + 1, match.index - 1), baseConfig, paraStyle)>>
        ELSE <<>>)
       \o <<MatchRun(match, baseConfig, paraStyle)>>
       \o ScanRuns(text, match.last, baseConfig, paraStyle)

\* The while loop, from regex.lastIndex = lastIndex.
ScanRuns(text, lastIndex, baseConfig, paraStyle) ==
  RunsOfMatch(text, lastIndex, RegexExec(text, lastIndex), baseConfig, paraStyle)

\* if (runs.length === 0) runs.push(new TextRun({ text, ... }))
RunsOrWholeText(runs, text, baseConfig, paraStyle) ==
  IF runs = <<>> THEN <<PlainRun(text, baseConfig, paraStyle)>> ELSE runs

parseTextWithFormat(text, formatSettings, baseConfig) ==
  RunsOrWholeText(ScanRuns(text, 0, baseConfig, ParaStyleOf(formatSettings)),
                  text, baseConfig, ParaStyleOf(formatSettings))

\* ------------------------------------------------------------------------
\* Tokens of the Markdown lexer.  A field a token does not have holds the
\* empty string, None (tokens, header, rows), 0 (depth) or FALSE (ordered).
\* ------------------------------------------------------------------------

Token(fields) ==
  fields @@ [type |-> "", text |-> <<>>, raw |-> <<>>, tokens |-> None, depth |-> 0,
             ordered |-> FALSE, items |-> <<>>, href |-> <<>>, alt |-> <<>>,
             header |-> None, rows |-> None]

\* t.text || t.raw || ''
TextOrRaw(t) == IF t.text # <<>> THEN t.text ELSE t.raw

\* tokens.map(t => t.text || t.raw || '').join('')
JoinTokens(tokens) == Join([k \in 1..Len(tokens) |-> TextOrRaw(tokens[k])])

\* raw.replace(/^D|D$/g, '') for a delimiter D ("**", "*" or "~~"): D is
\* removed at the start, and at the end of what the first match left.
StripDelimiters(raw, d) ==
  LET rest == IF HasAt(raw, 1, d) THEN SubSeq(raw, Len(d) + 1, Len(raw)) ELSE raw
  IN  IF Len(rest) >= Len(d) /\ HasAt(rest, Len(rest) - Len(d) + 1, d)
      THEN SubSeq(rest, 1, Len(rest) - Len(d))
      ELSE rest

\* The text of a strong, em or del token: its text, else its sub-tokens
\* joined, else its raw source without the delimiters.
InnerText(token, d) ==
  IF token.text # <<>> THEN token.text
  ELSE IF token.tokens # None /\ JoinTokens(token.tokens[1]) # <<>>
       THEN JoinTokens(token.tokens[1])
  ELSE IF token.raw # <<>> THEN StripDelimiters(token.raw, d)
  ELSE <<>>

\* The runs one inline token adds: one case of the switch of parseInlineTokens.
InlineRuns(token, baseConfig, formatSettings) ==
  LET paraStyle == ParaStyleOf(formatSettings)
      font == RunFont(baseConfig, paraStyle)
      size == RunSize(baseConfig, paraStyle)
  IN  CASE token.type = "text" ->
             IF token.text # <<>>
             THEN parseTextWithFormat(token.text, formatSettings, baseConfig)
             ELSE <<>>
        [] token.type = "strong" ->
             <<TextRun([text |-> InnerText(token, <<"*", "*">>), bold |-> TRUE,
                        font |-> font, size |-> size, italics |-> baseConfig.italics,
                        strike |-> baseConfig.strike, color |-> baseConfig.color])>>
        [] token.type = "em" ->
             <<TextRun([text |-> InnerText(token, <<"*">>), italics |-> TRUE,
                        font |-> font, size |-> size, bold |-> baseConfig.bold,
                        strike |-> baseConfig.strike, color |-> baseConfig.color])>>
        [] token.type = "del" ->
             <<TextRun([text |-> InnerText(token, <<"~", "~">>), strike |-> TRUE,
                        font |-> font, size |-> size, bold |-> baseConfig.bold,
                        italics |-> baseConfig.italics, color |-> baseConfig.color])>>
        [] token.type = "codespan" ->
             <<TextRun([text |-> token.text, font |-> "Courier New",
                        size |-> ParaHalfPoints(paraStyle), shading |-> "F5F5F5"])>>
        [] token.type = "link" ->
             <<TextRun([text |-> IF token.text # <<>> \/ token.tokens = None
                                 THEN token.text ELSE JoinTokens(token.tokens[1]),
                        color |-> "0563C1", underline |-> TRUE,
                        font |-> font, size |-> size])>>
        [] token.type = "br" -> <<TextRun([break |-> 1])>>
        [] OTHER ->
             IF TextOrRaw(token) # <<>>
             THEN parseTextWithFormat(TextOrRaw(token), formatSettings, baseConfig)
             ELSE <<>>

parseInlineTokens(tokens, baseConfig, formatSettings) ==
  Join([k \in 1..Len(tokens) |-> InlineRuns(tokens[k], baseConfig, formatSettings)])

\* ------------------------------------------------------------------------
\* Block elements
\* ------------------------------------------------------------------------

\* new Paragraph(options): the options given, every other option not set.
Paragraph(options) ==
  options @@ [children |-> <<>>, alignment |-> Undefined,
              spacing |-> [before |-> UndefinedNum, after |-> UndefinedNum,
                           line |-> UndefinedNum],
              indent |-> [left |-> UndefinedNum, right |-> UndefinedNum,
                          hanging |-> UndefinedNum, firstLine |-> UndefinedNum],
              border |-> Undefined, shading |-> Undefined]

getAlignment(align) ==
  CASE align = "center" -> "CENTER"
    [] align = "right" -> "RIGHT"
    [] align = "justify" -> "JUSTIFIED"
    [] OTHER -> "LEFT"

\* `heading${Math.min(depth, 4)}` with depth = token.depth || 1
HeadingKey(token) ==
  LET depth == IF token.depth = 0 THEN 1 ELSE token.depth
  IN  CASE depth = 1 -> "heading1"
        [] depth = 2 -> "heading2"
        [] depth = 3 -> "heading3"
        [] OTHER -> "heading4"

\* formatSettings?.[headingKey] || defaultHeadingStyles[headingKey]
HeadingStyleOf(token, formatSettings) ==
  IF formatSettings = None \/ formatSettings[1][HeadingKey(token)] = None
  THEN defaultHeadingStyles[HeadingKey(token)]
  ELSE formatSettings[1][HeadingKey(token)][1]

createHeadingParagraph(token, formatSettings) ==
  LET headingStyle == HeadingStyleOf(token, formatSettings)
      headingText == IF token.text # <<>> \/ token.tokens = None
                     THEN token.text ELSE JoinTokens(token.tokens[1])
  IN  Paragraph([children |-> <<TextRun([text |-> headingText, bold |-> TRUE,
                                         font |-> headingStyle.fontFamily,
                                         size |-> Times(headingStyle.fontSize, 2)])>>,
                 alignment |-> getAlignment(headingStyle.alignment),
                 spacing |-> [before |-> Times(headingStyle.spacingBefore, 20),
                              after |-> Times(headingStyle.spacingAfter, 20),
                              line |-> Times(headingStyle.lineHeight, 24)]])

createParagraphElement(token, formatSettings) ==
  LET paraStyle == ParaStyleOf(formatSettings)
      rawText == IF token.raw # <<>> THEN token.raw ELSE token.text
      indentChars == OrNum(paraStyle.firstLineIndent, 0)
      firstLineIndent ==
        Times(Times(indentChars, OrNum(paraStyle.fontSize, defaultStyles.fontSize)), 20)
  IN  Paragraph([children |-> parseTextWithFormat(rawText, formatSettings, EmptyConfig),
                 spacing |-> [before |-> UndefinedNum,
                              after |-> Times(OrNum(paraStyle.paragraphSpacing, 0), 20),
                              line |-> Times(OrNum(paraStyle.lineHeight,
                                                   defaultStyles.lineHeight), 24)],
                 indent |-> [left |-> UndefinedNum, right |-> UndefinedNum,
                             hanging |-> UndefinedNum,
                             firstLine |-> IF indentChars > 0 THEN firstLineIndent
                                           ELSE UndefinedNum]])

\* The decimal digits of a natural number: `${n}`
DigitChar(d) ==
  CASE d = 0 -> "0" [] d = 1 -> "1" [] d = 2 -> "2" [] d = 3 -> "3" [] d = 4 -> "4"
    [] d = 5 -> "5" [] d = 6 -> "6" [] d = 7 -> "7" [] d = 8 -> "8" [] OTHER -> "9"

RECURSIVE Decimal(_)
Decimal(n) ==
  IF n < 10 THEN <<DigitChar(n)>> ELSE Decimal(n \div 10) \o <<DigitChar(n % 10)>>

\* ['U+2022', 'U+25E6', 'U+25AA'][level % 3]
bulletChars == <<"U+2022", "U+25E6", "U+25AA">>

\* isOrdered ? `${index + 1}. ` : `${bulletChar} `, index counted from 0
ListPrefix(token, index, level) ==
  IF token.ordered THEN Decimal(index + 1) \o <<".", " ">>
  ELSE <<bulletChars[(level % 3) + 1], " ">>

\* The runs one token of a list item adds to the item's paragraph.
ItemTokenRuns(innerToken, formatSettings) ==
  IF innerToken.type \in {"text", "paragraph"} /\ innerToken.tokens # None
  THEN parseInlineTokens(innerToken.tokens[1], EmptyConfig, formatSettings)
  ELSE IF innerToken.text # <<>>
  THEN parseTextWithFormat(innerToken.text, formatSettings, EmptyConfig)
  ELSE <<>>

\* if (itemRuns.length === 0 && item.text) itemRuns.push(...parseTextWithFormat(item.text, ...))
TokenRunsOrText(fromTokens, item, formatSettings) ==
  IF fromTokens = <<>> /\ item.text # <<>>
  THEN parseTextWithFormat(item.text, formatSettings, EmptyConfig)
  ELSE fromTokens

\* The runs of a list item, without the prefix.
ItemRuns(item, formatSettings) ==
  TokenRunsOrText(IF item.tokens = None THEN <<>>
                  ELSE Join([k \in 1..Len(item.tokens[1]) |->
                               ItemTokenRuns(item.tokens[1][k], formatSettings)]),
                  item, formatSettings)

\* The paragraph pushed for the item at position index (from 0) of a list.
ItemParagraph(token, item, index, level, formatSettings) ==
  LET paraStyle == ParaStyleOf(formatSettings)
      prefixRun == TextRun([text |-> ListPrefix(token, index, level),
                            font |-> OrName(paraStyle.fontFamily, defaultStyles.fontFamily),
                            size |-> ParaHalfPoints(paraStyle)])
  IN  Paragraph([children |-> <<prefixRun>> \o ItemRuns(item, formatSettings),
                 spacing |-> [before |-> UndefinedNum, after |-> 60, line |-> UndefinedNum],
                 indent |-> [left |-> 720 * (level + 1), right |-> UndefinedNum,
                             hanging |-> 360, firstLine |-> UndefinedNum]])

\* A faulty variant of createListItemParagraphs: the nested lists of the
\* items are emitted after all the items of the list.
RECURSIVE createListItemParagraphsSiblingsFirst(_, _, _)
createListItemParagraphsSiblingsFirst(token, level, formatSettings) ==
  [k \in 1..Len(token.items) |->
     ItemParagraph(token, token.items[k], k - 1, level, formatSettings)]
  \o Join([k \in 1..Len(token.items) |->
             IF token.items[k].tokens = None THEN <<>>
             ELSE Join([j \in 1..Len(token.items[k].tokens[1]) |->
                          IF token.items[k].tokens[1][j].type = "list"
                          THEN createListItemParagraphsSiblingsFirst(
                                 token.items[k].tokens[1][j], level + 1, formatSettings)
                          ELSE <<>>])])

\* items.forEach: the item's paragraph, then the paragraphs of every list
\* among the item's tokens, one level deeper.
RECURSIVE createListItemParagraphs(_, _, _)
createListItemParagraphs(token, level, formatSettings) ==
  Join([k \in 1..Len(token.items) |->
          <<ItemParagraph(token, token.items[k], k - 1, level, formatSettings)>>
          \o (IF token.items[k].tokens = None THEN <<>>
              ELSE Join([j \in 1..Len(token.items[k].tokens[1]) |->
                           IF token.items[k].tokens[1][j].type = "list"
                           THEN createListItemParagraphs(token.items[k].tokens[1][j],
                                                         level + 1, formatSettings)
                           ELSE <<>>]))])

\* The quote colour and italics a blockquote passes to its runs.
QuoteConfig == [EmptyConfig EXCEPT !.color = "666666", !.italics = TRUE]

\* The left border of a quote paragraph.
QuoteBorder == "left:single:CCCCCC"

\* The paragraph of one inner paragraph token of a blockquote.
QuoteParagraph(innerToken, formatSettings) ==
  LET paraStyle == ParaStyleOf(formatSettings)
      runs == IF innerToken.tokens # None
              THEN parseInlineTokens(innerToken.tokens[1], QuoteConfig, formatSettings)
              ELSE <<TextRun([text |-> innerToken.text, color |-> "666666",
                              italics |-> TRUE,
                              font |-> OrName(paraStyle.fontFamily, defaultStyles.fontFamily),
                              size |-> ParaHalfPoints(paraStyle)])>>
  IN  Paragraph([children |-> runs,
                 spacing |-> [before |-> 120, after |-> 120, line |-> UndefinedNum],
                 indent |-> [left |-> 720, right |-> UndefinedNum,
                             hanging |-> UndefinedNum, firstLine |-> UndefinedNum],
                 border |-> QuoteBorder])

\* The paragraphs of the inner paragraph tokens; when there is none, one
\* paragraph of token.text || token.raw.
QuoteParagraphsOrText(paragraphs, token) ==
  IF paragraphs # <<>> THEN paragraphs
  ELSE <<Paragraph([children |-> <<TextRun([text |-> TextOrRaw(token),
                                           color |-> "666666", italics |-> TRUE])>>,
                    indent |-> [left |-> 720, right |-> UndefinedNum,
                                hanging |-> UndefinedNum, firstLine |-> UndefinedNum],
                    border |-> QuoteBorder])>>

createBlockquoteParagraphs(token, formatSettings) ==
  QuoteParagraphsOrText(
    IF token.tokens = None THEN <<>>
    ELSE Join([k \in 1..Len(token.tokens[1]) |->
                 IF token.tokens[1][k].type = "paragraph"
                 THEN <<QuoteParagraph(token.tokens[1][k], formatSettings)>>
                 ELSE <<>>]),
    token)

\* text.split(sep) for a one-character separator
RECURSIVE Split(_, _)
Split(text, sep) ==
  LET at == IndexFrom(text, 1, {sep})
  IN  IF at = 0 THEN <<text>>
      ELSE <<SubSeq(text, 1, at - 1)>> \o Split(SubSeq(text, at + 1, Len(text)), sep)

createCodeBlockParagraphs(token) ==
  LET codeLines == Split(token.text, "\n")
  IN  [index \in 1..Len(codeLines) |->
         Paragraph([children |-> <<TextRun([text |-> IF codeLines[index] = <<>> THEN <<" ">>
                                                     ELSE codeLines[index],
                                            font |-> "Courier New", size |-> 20])>>,
                    spacing |-> [before |-> IF index = 1 THEN 120 ELSE 0,
                                 after |-> IF index = Len(codeLines) THEN 120 ELSE 0,
                                 line |-> 240],
                    shading |-> "F8F8F8",
                    indent |-> [left |-> 360, right |-> 360, hanging |-> UndefinedNum,
                                firstLine |-> UndefinedNum]])]

createHorizontalRuleParagraph ==
  Paragraph([children |-> <<TextRun([text |-> <<>>])>>,
             spacing |-> [before |-> 240, after |-> 240, line |-> UndefinedNum],
             border |-> "bottom:single:999999"])

\* A table cell that is null: reading a property of it throws a TypeError.
NullCell == [text |-> <<"#null#">>, tokens |-> None]

\* cell.text || (cell.tokens ? cell.tokens.map(...).join('') : '')
CellText(cell) ==
  IF cell.text # <<>> \/ cell.tokens = None THEN cell.text ELSE JoinTokens(cell.tokens[1])

\* One row of cells: the header row is bold, centred and shaded.
TableRow(cells, isHeader, formatSettings) ==
  LET paraStyle == ParaStyleOf(formatSettings)
  IN  [k \in 1..Len(cells) |->
         [children |->
            <<Paragraph([children |->
                           <<TextRun([text |-> CellText(cells[k]), bold |-> isHeader,
                                      font |-> OrName(paraStyle.fontFamily,
                                                      defaultStyles.fontFamily),
                                      size |-> ParaHalfPoints(paraStyle)])>>,
                         alignment |-> IF isHeader THEN "CENTER" ELSE Undefined])>>,
          shading |-> IF isHeader THEN "F0F0F0" ELSE Undefined]]

\* createTableElement reads a null cell
TableThrows(token) ==
  \/ token.header # None /\ \E k \in 1..Len(token.header[1]) : token.header[1][k] = NullCell
  \/ token.rows # None /\ \E r \in 1..Len(token.rows[1]) :
       \E k \in 1..Len(token.rows[1][r]) : token.rows[1][r][k] = NullCell

createTableElement(token, formatSettings) ==
  [rows |-> (IF token.header = None THEN <<>>
             ELSE <<TableRow(token.header[1], TRUE, formatSettings)>>)
            \o (IF token.rows = None THEN <<>>
                ELSE [r \in 1..Len(token.rows[1]) |->
                        TableRow(token.rows[1][r], FALSE, formatSettings)]),
   width |-> "100%", borders |-> "single:CCCCCC"]

\* ------------------------------------------------------------------------
\* The image map of a pass: a Map in insertion order, a sequence of
\* entries [key, value].  An image reference is a sequence of parts, its
\* first part the scheme or directory prefix; the suffix '::__buffer__' is
\* one part.
\* ------------------------------------------------------------------------

BufferSuffix == "::__buffer__"

\* imageMap.has(key)
MapHas(map, key) == \E k \in 1..Len(map) : map[k].key = key

\* A faulty variant of MapSet: every call adds an entry.
MapSetAlwaysAdds(map, key, value) == Append(map, [key |-> key, value |-> value])

\* imageMap.set(key, value): a key already there keeps its place.
MapSet(map, key, value) ==
  IF MapHas(map, key)
  THEN [k \in 1..Len(map) |-> IF map[k].key = key THEN [key |-> key, value |-> value]
                              ELSE map[k]]
  ELSE Append(map, [key |-> key, value |-> value])

\* imageMap.get(key): None for undefined.
MapGet(map, key) ==
  IF MapHas(map, key)
  THEN Some(map[CHOOSE k \in 1..Len(map) : map[k].key = key].value)
  ELSE None

\* The child tokens collectImagePaths descends into: token.tokens, then
\* the tokens of every item of token.items.
ChildTokens(token) ==
  (IF token.tokens = None THEN <<>> ELSE token.tokens[1])
  \o Join([k \in 1..Len(token.items) |->
             IF token.items[k].tokens = None THEN <<>> ELSE token.items[k].tokens[1]])

\* The calls imageMap.set(imagePath, Buffer.alloc(0)) of collectImagePaths on
\* a sequence of tokens, as the sequence of the paths set, in order.
RECURSIVE CollectedPaths(_)
CollectedPaths(tokens) ==
  Join([k \in 1..Len(tokens) |->
          (IF tokens[k].type = "image" /\ tokens[k].href # <<>>
           THEN <<tokens[k].href>> ELSE <<>>)
          \o CollectedPaths(ChildTokens(tokens[k]))])

RECURSIVE SetAll(_, _)
SetAll(map, paths) ==
  IF paths = <<>> THEN map
  ELSE SetAll(MapSet(map, Head(paths), <<>>), Tail(paths))

\* for (const token of tokens) collectImagePaths(token, imageMap)
collectImagePaths(tokens, map) == SetAll(map, CollectedPaths(tokens))

\* imagePath.endsWith('::__buffer__')
IsBufferKey(key) == key # <<>> /\ key[Len(key)] = BufferSuffix

\* The class of a reference, in the order the loading loop tests them.
RefClass(imagePath) ==
  CASE HasAt(imagePath, 1, <<"work2word-local://">>) -> "local-asset"
    [] HasAt(imagePath, 1, <<"./assets/images/">>)
         \/ HasAt(imagePath, 1, <<"assets/images/">>) -> "app-relative"
    [] HasAt(imagePath, 1, <<"http://">>) \/ HasAt(imagePath, 1, <<"https://">>) -> "remote"
    [] OTHER -> "path"

\* The outcomes of one read or fetch: bytes, an empty buffer, or no buffer
\* (readFile rejects, the response is not ok, fetch rejects).
LoadOutcomes == {"bytes", "empty", "failed"}

\* The bytes a reference resolves to.
BytesOf(imagePath) == <<"bytes-of">> \o imagePath

\* The map after one iteration of the loading loop on the entry key.
AfterLoad(map, key, outcome) ==
  IF outcome = "bytes" THEN MapSet(map, key \o <<BufferSuffix>>, BytesOf(key))
  ELSE IF outcome = "empty" THEN MapSet(map, key \o <<BufferSuffix>>, <<>>)
  ELSE map

\* ------------------------------------------------------------------------
\* The token loop of markdownToParagraphs
\* ------------------------------------------------------------------------

\* new ImageRun({ data, transformation: { width: 400, height: 300 } })
ImageRun(data) == [data |-> data, width |-> 400, height |-> 300]

\* innerToken.text || innerToken.alt || 'U+56FE U+7247'
AltText(imageToken) ==
  IF imageToken.text # <<>> THEN imageToken.text
  ELSE IF imageToken.alt # <<>> THEN imageToken.alt
  ELSE <<"U+56FE", "U+7247">>

\* The grey italic paragraph with the given text.
GreyParagraph(text) ==
  Paragraph([children |-> <<TextRun([text |-> text, color |-> "999999",
                                     italics |-> TRUE])>>])

\* A faulty variant of PlaceholderText: the reference is left out.
PlaceholderTextWithoutRef(altText, imagePath) ==
  <<"[", "U+56FE", "U+7247", ":", " ">> \o altText \o <<"]">>

\* `[U+56FE U+7247: ${altText}](${imagePath})`
PlaceholderText(altText, imagePath) ==
  <<"[", "U+56FE", "U+7247", ":", " ">> \o altText \o <<"]", "(">> \o imagePath \o <<")">>

\* `[U+56FE U+7247: ${altText}]`, pushed when new ImageRun throws
EmbedFailedText(altText) == <<"[", "U+56FE", "U+7247", ":", " ">> \o altText \o <<"]">>

\* The element of an image token (a child of a paragraph, or top level):
\* the embedded image when the map holds a non-empty buffer for its path,
\* a placeholder otherwise.  embeds is whether new ImageRun succeeds.
ImageElement(imageToken, map, embeds) ==
  LET imagePath == imageToken.href
      imageBuffer == MapGet(map, imagePath \o <<BufferSuffix>>)
  IN  IF imageBuffer # None /\ Len(imageBuffer[1]) > 0
      THEN IF embeds
           THEN Paragraph([children |-> <<ImageRun(imageBuffer[1])>>,
                           alignment |-> "CENTER",
                           spacing |-> [before |-> 200, after |-> 200,
                                        line |-> UndefinedNum]])
           ELSE GreyParagraph(EmbedFailedText(AltText(imageToken)))
      ELSE GreyParagraph(PlaceholderText(AltText(imageToken), imagePath))

\* What the switch does for one token: the elements it pushes, and whether
\* it throws after pushing them.
Pushed(elements) == [pushed |-> elements, threw |-> FALSE]
ThrewAfter(elements) == [pushed |-> elements, threw |-> TRUE]

\* The elements one child of such a paragraph adds.
\* A faulty variant of ChildElements: a blank text child gets a paragraph too.
ChildElementsKeepingBlank(child, map, formatSettings, embeds) ==
  IF child.type = "image" THEN <<ImageElement(child, map, embeds)>>
  ELSE IF child.type = "text"
  THEN <<createParagraphElement(Token([raw |-> child.text, text |-> child.text]),
                                formatSettings)>>
  ELSE <<>>

ChildElements(child, map, formatSettings, embeds) ==
  IF child.type = "image" THEN <<ImageElement(child, map, embeds)>>
  ELSE IF child.type = "text" /\ trim(child.text) # <<>>
  THEN <<createParagraphElement(Token([raw |-> child.text, text |-> child.text]),
                                formatSettings)>>
  ELSE <<>>

\* The elements of a child, then what the rest of the loop does.
ThenRest(here, rest) == [pushed |-> here \o rest.pushed, threw |-> rest.threw]

\* The per-child loop of a paragraph that holds an image, from child k on:
\* an element per image, a paragraph per text child that is not blank; a
\* text child whose text is not a string throws at text?.trim().
RECURSIVE ImageParagraphChildren(_, _, _, _, _)
ImageParagraphChildren(children, k, map, formatSettings, embeds) ==
  IF k > Len(children) THEN Pushed(<<>>)
  ELSE IF children[k].type = "text" /\ children[k].text = NonString THEN ThrewAfter(<<>>)
  ELSE ThenRest(ChildElements(children[k], map, formatSettings, embeds),
                ImageParagraphChildren(children, k + 1, map, formatSettings, embeds))

\* text.replace(/<[^>]*>/g, '')
RECURSIVE StripTags(_, _)
StripTags(s, i) ==
  IF i > Len(s) THEN <<>>
  ELSE LET close == IF s[i] = "<" THEN IndexFrom(s, i + 1, {">"}) ELSE 0
       IN  IF close # 0 THEN StripTags(s, close + 1)
           ELSE <<s[i]>> \o StripTags(s, i + 1)

\* The plain paragraph of the html, default and catch branches.
RawTextParagraph(text, formatSettings) ==
  LET paraStyle == OptionalParaStyleOf(formatSettings)
  IN  Paragraph([children |-> <<TextRun([text |-> text,
                                         font |-> OrName(paraStyle.fontFamily,
                                                         defaultStyles.fontFamily),
                                         size |-> ParaHalfPoints(paraStyle)])>>])

\* The body of the try block for one top-level token.
HandleToken(token, map, formatSettings, embeds) ==
  CASE token.type = "heading" -> Pushed(<<createHeadingParagraph(token, formatSettings)>>)
    [] token.type = "paragraph" ->
         IF token.tokens # None
            /\ \E k \in 1..Len(token.tokens[1]) : token.tokens[1][k].type = "image"
         THEN ImageParagraphChildren(token.tokens[1], 1, map, formatSettings, embeds)
         ELSE Pushed(<<createParagraphElement(token, formatSettings)>>)
    [] token.type = "blockquote" -> Pushed(createBlockquoteParagraphs(token, formatSettings))
    [] token.type = "code" ->
         IF token.text = NonString THEN ThrewAfter(<<>>)
         ELSE Pushed(createCodeBlockParagraphs(token))
    [] token.type = "list" -> Pushed(createListItemParagraphs(token, 0, formatSettings))
    [] token.type = "table" ->
         IF TableThrows(token) THEN ThrewAfter(<<>>)
         ELSE Pushed(<<createTableElement(token, formatSettings)>>)
    [] token.type = "hr" -> Pushed(<<createHorizontalRuleParagraph>>)
    [] token.type = "image" -> Pushed(<<ImageElement(token, map, embeds)>>)
    [] token.type = "space" -> Pushed(<<Paragraph([children |-> <<>>])>>)
    [] token.type = "html" ->
         IF token.text = NonString THEN ThrewAfter(<<>>)
         ELSE IF trim(token.text) # <<>>
         THEN Pushed(<<RawTextParagraph(StripTags(token.text, 1), formatSettings)>>)
         ELSE Pushed(<<>>)
    [] OTHER ->
         IF token.text # <<>> THEN Pushed(<<RawTextParagraph(token.text, formatSettings)>>)
         ELSE Pushed(<<>>)

\* The catch block: a plain paragraph of token.text || token.raw, if any.
CatchElements(token, formatSettings) ==
  IF TextOrRaw(token) # <<>> THEN <<RawTextParagraph(TextOrRaw(token), formatSettings)>>
  ELSE <<>>

\* What the try block pushed, then what the catch block pushes if it threw.
WithCatch(handled, token, formatSettings) ==
  handled.pushed \o (IF handled.threw THEN CatchElements(token, formatSettings) ELSE <<>>)

\* One iteration of the token loop: what it appends to elements.
TokenElements(token, map, formatSettings, embeds) ==
  WithCatch(HandleToken(token, map, formatSettings, embeds), token, formatSettings)

\* ------------------------------------------------------------------------
\* The file system and fs.writeFile
\* ------------------------------------------------------------------------

\* The timestamp Date.now() returns during a call.
Now == "1700000000000"

\* `output_${Date.now()}.${ext}`
DefaultPath(ext) == "output_" \o Now \o "." \o ext

\* A high and a low surrogate (the pair is U+1F600).
HighSurrogate == "U+D83D"
LowSurrogate == "U+DE00"

\* Buffer.from(s, 'utf-8'): one byte for an ASCII unit, two for U+00E9,
\* four for a surrogate pair, and the three bytes of U+FFFD for a
\* surrogate that has no partner.
RECURSIVE Utf8Encode(_)
Utf8Encode(s) ==
  IF s = <<>> THEN <<>>
  ELSE IF HasAt(s, 1, <<HighSurrogate, LowSurrogate>>)
  THEN <<"F0", "9F", "98", "80">> \o Utf8Encode(SubSeq(s, 3, Len(s)))
  ELSE IF s[1] \in {HighSurrogate, LowSurrogate}
  THEN <<"EF", "BF", "BD">> \o Utf8Encode(Tail(s))
  ELSE IF s[1] = "U+00E9" THEN <<"C3", "A9">> \o Utf8Encode(Tail(s))
  ELSE IF s[1] = "U+FFFD" THEN <<"EF", "BF", "BD">> \o Utf8Encode(Tail(s))
  ELSE <<s[1]>> \o Utf8Encode(Tail(s))

\* buffer.toString('utf-8'): what reading the bytes back yields.
RECURSIVE Utf8Decode(_)
Utf8Decode(b) ==
  IF b = <<>> THEN <<>>
  ELSE IF HasAt(b, 1, <<"F0", "9F", "98", "80">>)
  THEN <<HighSurrogate, LowSurrogate>> \o Utf8Decode(SubSeq(b, 5, Len(b)))
  ELSE IF HasAt(b, 1, <<"EF", "BF", "BD">>)
  THEN <<"U+FFFD">> \o Utf8Decode(SubSeq(b, 4, Len(b)))
  ELSE IF HasAt(b, 1, <<"C3", "A9">>)
  THEN <<"U+00E9">> \o Utf8Decode(SubSeq(b, 3, Len(b)))
  ELSE <<b[1]>> \o Utf8Decode(Tail(b))

\* The file at a path: None when there is none, Some(bytes) otherwise.
NoFile == None

\* The outcomes of fs.writeFile(path, data): -1 when the file cannot be
\* opened (nothing is touched), otherwise the number of bytes written
\* before the write ended; fewer than Len(data) is a failure after the
\* file was created or truncated.
WriteOutcomes(data) == {0 - 1} \cup (0..Len(data))

\* A faulty variant of AfterWrite: the file is opened for appending.
AfterWriteAppending(files, path, data, written) ==
  IF written < 0 THEN files
  ELSE [files EXCEPT ![path] =
          Some((IF files[path] = NoFile THEN <<>> ELSE files[path][1])
               \o SubSeq(data, 1, written))]

\* The files after fs.writeFile(path, data) ended with the given outcome.
AfterWrite(files, path, data, written) ==
  IF written < 0 THEN files
  ELSE [files EXCEPT ![path] = Some(SubSeq(data, 1, written))]

\* The message of the error fs.writeFile rejects with.
WriteError(written) == IF written < 0 THEN <<"ENOENT">> ELSE <<"ENOSPC">>

\* ------------------------------------------------------------------------
\* Packer.toBuffer and pdfkit
\* ------------------------------------------------------------------------

\* The bytes of the .docx of a document: the archive's local header, one
\* part per element of the body, and the end-of-central-directory record.
DocxBytes(elements) == <<"PK">> \o [k \in 1..Len(elements) |-> "part"] \o <<"EOCD">>

\* Packer.toBuffer(new Document({ sections: [{ children: elements }] }))
PackerToBuffer(elements) == [document |-> elements, bytes |-> DocxBytes(elements)]

\* line.match(/^[-*]\s/)
IsBulletLine(line) == Len(line) >= 2 /\ line[1] \in {"-", "*"} /\ line[2] \in Whitespace

\* line.match(/^\d+\.\s/)
IsNumberedLine(line) ==
  LET n == RunLen(line, 1, Digits)
  IN  n >= 1 /\ Len(line) >= n + 2 /\ line[n + 1] = "." /\ line[n + 2] \in Whitespace

\* line.replace(/D([^c]+)D/g, '$1') for a delimiter D whose character is c
RECURSIVE StripPairs(_, _, _)
StripPairs(s, i, d) ==
  IF i > Len(s) THEN <<>>
  ELSE LET from == i + Len(d)
           n == RunLenNot(s, from, {d[1]})
       IN  IF HasAt(s, i, d) /\ n >= 1 /\ HasAt(s, from + n, d)
           THEN SubSeq(s, from, from + n - 1) \o StripPairs(s, from + n + Len(d), d)
           ELSE <<s[i]>> \o StripPairs(s, i + 1, d)

\* The three replacements of an ordinary line: bold, italics, inline code.
SimplifyLine(line) ==
  StripPairs(StripPairs(StripPairs(line, 1, <<"*", "*">>), 1, <<"*">>), 1, <<Backtick>>)

Fence == <<Backtick, Backtick, Backtick>>

\* What one line outside a code block draws.
LineOps(line) ==
  CASE trim(line) = <<>> -> <<[op |-> "moveDown", size |-> 0, text |-> <<>>]>>
    [] HasAt(line, 1, <<"#", " ">>) ->
         <<[op |-> "heading", size |-> 24, text |-> SubSeq(line, 3, Len(line))]>>
    [] HasAt(line, 1, <<"#", "#", " ">>) ->
         <<[op |-> "heading", size |-> 20, text |-> SubSeq(line, 4, Len(line))]>>
    [] HasAt(line, 1, <<"#", "#", "#", " ">>) ->
         <<[op |-> "heading", size |-> 16, text |-> SubSeq(line, 5, Len(line))]>>
    [] HasAt(line, 1, <<"#", "#", "#", "#", " ">>) ->
         <<[op |-> "heading", size |-> 14, text |-> SubSeq(line, 6, Len(line))]>>
    [] IsBulletLine(line) ->
         <<[op |-> "item", size |-> 12,
            text |-> <<"U+2022", " ">> \o SubSeq(line, 3, Len(line))]>>
    [] IsNumberedLine(line) -> <<[op |-> "item", size |-> 12, text |-> line]>>
    [] HasAt(line, 1, <<">", " ">>) ->
         <<[op |-> "quote", size |-> 12, text |-> SubSeq(line, 3, Len(line))]>>
    [] OTHER -> <<[op |-> "text", size |-> 12, text |-> SimplifyLine(line)]>>

\* The loop over the lines from line k on: a line that starts with three
\* backticks opens or closes a code block; the block is drawn when it is
\* closed.
RECURSIVE PdfOps(_, _, _, _)
PdfOps(lines, k, inCodeBlock, codeContent) ==
  IF k > Len(lines) THEN <<>>
  ELSE IF HasAt(lines[k], 1, Fence)
  THEN IF inCodeBlock
       THEN <<[op |-> "code", size |-> 10, text |-> codeContent]>>
            \o PdfOps(lines, k + 1, FALSE, <<>>)
       ELSE PdfOps(lines, k + 1, TRUE, codeContent)
  ELSE IF inCodeBlock
  THEN PdfOps(lines, k + 1, TRUE, codeContent \o lines[k] \o <<"\n">>)
  ELSE LineOps(lines[k]) \o PdfOps(lines, k + 1, FALSE, codeContent)

\* The bytes pdfkit emits for the drawing operations: the header, one
\* object per operation, the trailer.
PdfBytes(ops) == <<"%PDF">> \o [k \in 1..Len(ops) |-> "obj"] \o <<"%%EOF">>

\* The document of the drawing operations and its bytes.
PdfDocument(ops) == [document |-> ops, bytes |-> PdfBytes(ops)]

\* Buffer.concat(chunks) once the document has ended.
PdfBuffer(mdContent) == PdfDocument(PdfOps(Split(mdContent, "\n"), 1, FALSE, <<>>))

\* ------------------------------------------------------------------------
\* Errors
\* ------------------------------------------------------------------------

\* 'U+8F6C U+6362 Word U+6587 U+6863 U+5931 U+8D25: '
WordFailed ==
  <<"U+8F6C", "U+6362", " ", "W", "o", "r", "d", " ", "U+6587", "U+6863", "U+5931",
    "U+8D25", ":", " ">>

\* 'U+8F6C U+6362 PDF U+5931 U+8D25: '
PdfFailed == <<"U+8F6C", "U+6362", " ", "P", "D", "F", " ", "U+5931", "U+8D25", ":", " ">>

\* 'U+4E0D U+652F U+6301 U+7684 U+8F93 U+51FA U+683C U+5F0F: '
UnsupportedFormat ==
  <<"U+4E0D", "U+652F", "U+6301", "U+7684", "U+8F93", "U+51FA", "U+683C", "U+5F0F",
    ":", " ">>

\* new Error(message)
Error(message) == [message |-> message]

\* ------------------------------------------------------------------------
\* The state of one call
\* ------------------------------------------------------------------------

VARIABLES
  call,        \* the function called and its arguments
  pc,          \* where the call is: the next step, "returned" or "threw"
  before,      \* history: the file system when the call was made
  files,       \* the file system: path -> NoFile or Some(bytes)
  lexed,       \* what marked.lexer answers for the call's Markdown
  filePath,    \* convertToFormat: const filePath
  tokens,      \* markdownToParagraphs: const tokens
  imageMap,    \* markdownToParagraphs: const imageMap
  cursor,      \* the position of the loading loop in imageMap
  loads,       \* history: the references a read or fetch was issued for
  elements,    \* markdownToParagraphs: const elements
  done,        \* the number of tokens the token loop has finished
  buffer,      \* the packed document: None or Some([document, bytes])
  ret,         \* the value returned
  error,       \* the error thrown: None or Some(Error(message))
  failedStage, \* history: the stage that was running when the call threw
  second,      \* a second call of convertToFormat in flight, with its own locals
  homework     \* processHomework: the step it is at, its step results, and the
               \* history of its LLM calls and callbacks

vars ==
  <<call, pc, before, files, lexed, filePath, tokens, imageMap, cursor, loads, elements, done,
    buffer, ret, error, failedStage, second, homework>>

\* What is left alone by the steps of convertToFormat outside the
\* Markdown-to-elements pass.
passVars == <<tokens, imageMap, cursor, loads, elements, done>>

\* ------------------------------------------------------------------------
\* convertToFormat
\* ------------------------------------------------------------------------

\* The call throws err while stage is running.
Throw(err, stage) ==
  /\ pc' = "threw"
  /\ error' = Some(err)
  /\ failedStage' = stage

\* await fs.writeFile(filePath, data) ends: it wrote everything and the
\* call returns result, or it rejects and the call throws an error whose
\* message is the rejection's, after the prefix the catch block puts
\* before it (none in the md branch, which has no catch block).
WriteFile(data, result, prefix) ==
  \E written \in WriteOutcomes(data) :
    /\ files' = AfterWrite(files, filePath, data, written)
    /\ IF written = Len(data)
       THEN /\ pc' = "returned"
            /\ ret' = result
            /\ UNCHANGED <<error, failedStage>>
       ELSE /\ Throw(Error(prefix \o WriteError(written)), "write")
            /\ UNCHANGED ret

\* new Error(`... Word ...: ${error.message}`)
WordError(message) == Error(WordFailed \o message)

\* new Error(`... PDF ...: ${error.message}`)
PdfError(message) == Error(PdfFailed \o message)

\* format === 'md': the path is chosen and fs.writeFile is called.
ConvertMd ==
  /\ pc = "convertToFormat"
  /\ call.args.format = "md"
  /\ filePath' = OrName(call.args.outputPath, DefaultPath("md"))
  /\ pc' = "writeMd"
  /\ UNCHANGED <<call, second, homework, before, files, lexed, passVars, buffer, ret, error,
                 failedStage>>

WriteMd ==
  /\ pc = "writeMd"
  /\ WriteFile(Utf8Encode(call.args.mdContent), [path |-> filePath, buffer |-> None],
               <<>>)
  /\ UNCHANGED <<call, second, homework, before, lexed, filePath, passVars, buffer>>

\* format === 'doc': the path is chosen and markdownToParagraphs is called.
ConvertDoc ==
  /\ pc = "convertToFormat"
  /\ call.args.format = "doc"
  /\ filePath' = OrName(call.args.outputPath, DefaultPath("docx"))
  /\ pc' = "markdownToParagraphs"
  /\ UNCHANGED <<call, second, homework, before, files, lexed, passVars, buffer, ret, error,
                 failedStage>>

\* new Document(...) and await Packer.toBuffer(doc): a buffer, or an error
\* the catch block wraps.
Pack ==
  /\ pc = "pack"
  /\ \/ /\ buffer' = Some(PackerToBuffer(elements))
        /\ pc' = "writeDocx"
        /\ UNCHANGED <<error, failedStage>>
     \/ /\ Throw(WordError(<<"packer">>), "transform")
        /\ UNCHANGED buffer
  /\ UNCHANGED <<call, second, homework, before, files, lexed, filePath, passVars, ret>>

WriteDocx ==
  /\ pc = "writeDocx"
  /\ WriteFile(buffer[1].bytes, [path |-> filePath, buffer |-> buffer], WordFailed)
  /\ UNCHANGED <<call, second, homework, before, lexed, filePath, passVars, buffer>>

\* format === 'pdf': the path is chosen, the pdfkit document is created.
ConvertPdf ==
  /\ pc = "convertToFormat"
  /\ call.args.format = "pdf"
  /\ filePath' = OrName(call.args.outputPath, DefaultPath("pdf"))
  /\ pc' = "renderPdf"
  /\ UNCHANGED <<call, second, homework, before, files, lexed, passVars, buffer, ret, error,
                 failedStage>>

\* The loop over the lines up to doc.end(): pdfkit draws, or throws.
RenderPdf ==
  /\ pc = "renderPdf"
  /\ \/ /\ buffer' = Some(PdfBuffer(call.args.mdContent))
        /\ pc' = "endPdf"
        /\ UNCHANGED <<error, failedStage>>
     \/ /\ Throw(PdfError(<<"pdfkit">>), "transform")
        /\ UNCHANGED buffer
  /\ UNCHANGED <<call, second, homework, before, files, lexed, filePath, passVars, ret>>

\* await pdfPromise: the document emits 'end', or 'error'.
EndPdf ==
  /\ pc = "endPdf"
  /\ \/ /\ pc' = "writePdf"
        /\ UNCHANGED <<error, failedStage>>
     \/ Throw(PdfError(<<"stream">>), "transform")
  /\ UNCHANGED <<call, second, homework, before, files, lexed, filePath, passVars, buffer, ret>>

WritePdf ==
  /\ pc = "writePdf"
  /\ WriteFile(buffer[1].bytes, [path |-> filePath, buffer |-> buffer], PdfFailed)
  /\ UNCHANGED <<call, second, homework, before, lexed, filePath, passVars, buffer>>

\* A faulty variant of ConvertUnsupported: any other format is taken for
\* 'pdf'.
ConvertUnsupportedAsPdf ==
  /\ pc = "convertToFormat"
  /\ call.args.format \notin {"md", "doc", "pdf"}
  /\ filePath' = OrName(call.args.outputPath, DefaultPath("pdf"))
  /\ pc' = "renderPdf"
  /\ UNCHANGED <<call, second, homework, before, files, lexed, passVars, buffer, ret, error,
                 failedStage>>

\* Any other format: the path is chosen, then the last line throws.
ConvertUnsupported ==
  /\ pc = "convertToFormat"
  /\ call.args.format \notin {"md", "doc", "pdf"}
  /\ filePath' = OrName(call.args.outputPath, DefaultPath("pdf"))
  /\ Throw(Error(UnsupportedFormat \o <<call.args.format>>), "dispatch")
  /\ UNCHANGED <<call, second, homework, before, files, lexed, passVars, buffer, ret>>

\* ------------------------------------------------------------------------
\* markdownToParagraphs
\* ------------------------------------------------------------------------

\* The lexer's tokens and the scan that collects the image paths.
Lex ==
  /\ pc = "markdownToParagraphs"
  /\ tokens' = lexed
  /\ elements' = <<>>
  /\ imageMap' = collectImagePaths(lexed, <<>>)
  /\ cursor' = 1
  /\ pc' = "loadImages"
  /\ UNCHANGED <<call, second, homework, before, files, lexed, filePath, loads, done, buffer,
                 ret, error,
                 failedStage>>

\* A faulty variant of LoadImage: a read or fetch that fails ends the pass
\* with an exception.
LoadImageRejecting ==
  /\ pc = "loadImages"
  /\ cursor <= Len(imageMap)
  /\ ~IsBufferKey(imageMap[cursor].key)
  /\ \E outcome \in LoadOutcomes :
       /\ imageMap' = AfterLoad(imageMap, imageMap[cursor].key, outcome)
       /\ IF outcome = "failed"
          THEN Throw(Error(<<"ENOENT">>), "resolve")
          ELSE pc' = pc /\ UNCHANGED <<error, failedStage>>
  /\ loads' = Append(loads, imageMap[cursor].key)
  /\ cursor' = cursor + 1
  /\ UNCHANGED <<call, second, homework, before, files, lexed, filePath, tokens, elements, done,
                 buffer, ret>>

\* One iteration of the loading loop on a key that is not a buffer key:
\* the read or fetch ends, and its buffer, if any, is stored.
LoadImage ==
  /\ pc = "loadImages"
  /\ cursor <= Len(imageMap)
  /\ ~IsBufferKey(imageMap[cursor].key)
  /\ \E outcome \in LoadOutcomes :
       imageMap' = AfterLoad(imageMap, imageMap[cursor].key, outcome)
  /\ loads' = Append(loads, imageMap[cursor].key)
  /\ cursor' = cursor + 1
  /\ UNCHANGED <<call, second, homework, before, pc, files, lexed, filePath, tokens, elements, done,
                 buffer, ret,
                 error, failedStage>>

\* One iteration on a key that ends with '::__buffer__': continue.
SkipBufferKey ==
  /\ pc = "loadImages"
  /\ cursor <= Len(imageMap)
  /\ IsBufferKey(imageMap[cursor].key)
  /\ cursor' = cursor + 1
  /\ UNCHANGED <<call, second, homework, before, pc, files, lexed, filePath, tokens, imageMap,
                 loads,
                 elements,
                 done, buffer, ret, error, failedStage>>

\* A faulty variant of LoadDone: the token loop starts while entries of the
\* map are still to be visited.
LoadDoneEarly ==
  /\ pc = "loadImages"
  /\ pc' = "buildElements"
  /\ done' = 0
  /\ UNCHANGED <<call, second, homework, before, files, lexed, filePath, tokens, imageMap,
                 cursor, loads,
                 elements,
                 buffer, ret, error, failedStage>>

\* The map's iterator is exhausted: the token loop starts.
LoadDone ==
  /\ pc = "loadImages"
  /\ cursor > Len(imageMap)
  /\ pc' = "buildElements"
  /\ done' = 0
  /\ UNCHANGED <<call, second, homework, before, files, lexed, filePath, tokens, imageMap,
                 cursor, loads,
                 elements,
                 buffer, ret, error, failedStage>>

\* A faulty variant of BuildToken: the elements of the token are put in
\* front of the ones already there.
BuildTokenPrepending ==
  /\ pc = "buildElements"
  /\ done < Len(tokens)
  /\ \E embeds \in BOOLEAN :
       elements' = TokenElements(tokens[done + 1], imageMap,
                                 call.args.formatSettings, embeds) \o elements
  /\ done' = done + 1
  /\ UNCHANGED <<call, second, homework, before, pc, files, lexed, filePath, tokens, imageMap,
                 cursor,
                 loads, buffer, ret, error, failedStage>>

\* One iteration of the token loop, its catch block included.
BuildToken ==
  /\ pc = "buildElements"
  /\ done < Len(tokens)
  /\ \E embeds \in BOOLEAN :
       elements' = elements \o TokenElements(tokens[done + 1], imageMap,
                                             call.args.formatSettings, embeds)
  /\ done' = done + 1
  /\ UNCHANGED <<call, second, homework, before, pc, files, lexed, filePath, tokens, imageMap,
                 cursor, loads,
                 buffer, ret, error, failedStage>>

\* return elements: to convertToFormat, or to the caller of the pass.
ReturnElements ==
  /\ pc = "buildElements"
  /\ done = Len(tokens)
  /\ IF call.fn = "markdownToParagraphs"
     THEN pc' = "returned" /\ ret' = elements
     ELSE pc' = "pack" /\ UNCHANGED ret
  /\ UNCHANGED <<call, second, homework, before, files, lexed, filePath, passVars, buffer, error,
                 failedStage>>

\* ------------------------------------------------------------------------
\* Bounds and inputs
\* ------------------------------------------------------------------------

MaxTokens == 2        \* top-level tokens of a lexed document
MaxContentLen == 2    \* code units of a generated Markdown string
MaxLatexLen == 3      \* code units of a generated formula
MaxTextLen == 4       \* code units of a generated inline text
MaxListDepth == 2     \* nesting depth of a generated list

\* All strings over an alphabet of at most n code units.
StringsUpTo(alphabet, n) == UNION {[1..k -> alphabet] : k \in 0..n}

\* All sequences of at most n elements of S.
SeqsUpTo(S, n) == UNION {[1..k -> S] : k \in 0..n}

TextToken(text) == Token([type |-> "text", text |-> text, raw |-> text])

ImageToken(href, alt) ==
  Token([type |-> "image", href |-> href, text |-> alt,
         raw |-> <<"!", "[">> \o alt \o <<"]", "(">> \o href \o <<")">>])

\* One reference of each class.
LocalAssetRef == <<"work2word-local://", "a.png">>
AppRelativeRef == <<"./assets/images/", "b.png">>
RemoteRef == <<"https://", "host/c.png">>
PathRef == <<"/home/u/", "d.png">>

HeadingTok ==
  Token([type |-> "heading", depth |-> 2, text |-> <<"H">>, raw |-> <<"#", "#", " ", "H">>,
         tokens |-> Some(<<TextToken(<<"H">>)>>)])

ParagraphTok ==
  Token([type |-> "paragraph", text |-> <<"p">>, raw |-> <<"p">>,
         tokens |-> Some(<<TextToken(<<"p">>)>>)])

\* ![pic](work2word-local://a.png) t
ImageParagraphTok ==
  Token([type |-> "paragraph", text |-> <<"i">>, raw |-> <<"i">>,
         tokens |-> Some(<<ImageToken(LocalAssetRef, <<"p", "i", "c">>),
                           TextToken(<<" ", "t">>)>>)])

\* A paragraph whose second child is a text token whose text is no string.
TornParagraphTok ==
  Token([type |-> "paragraph", text |-> <<"q">>, raw |-> <<"q">>,
         tokens |-> Some(<<ImageToken(RemoteRef, <<"w">>),
                           Token([type |-> "text", text |-> NonString])>>)])

\* a![m](/home/u/d.png) **s**![n](./assets/images/b.png)b : text, an image,
\* a blank text, a strong token, a second image and text.
MixedParagraphTok ==
  Token([type |-> "paragraph", text |-> <<"m">>, raw |-> <<"m">>,
         tokens |-> Some(<<TextToken(<<"a">>),
                           ImageToken(PathRef, <<"m">>),
                           TextToken(<<" ">>),
                           Token([type |-> "strong", text |-> <<"s">>,
                                  raw |-> <<"*", "*", "s", "*", "*">>]),
                           ImageToken(LocalAssetRef, <<"n">>),
                           TextToken(<<"b">>)>>)])

\* ![](/home/u/d.png) at top level, without alt text
ImageTok == ImageToken(PathRef, <<>>)

CodeTok == Token([type |-> "code", text |-> <<"a", "\n", "b">>, raw |-> <<"c">>])

\* A code token whose text is no string.
BadCodeTok == Token([type |-> "code", text |-> NonString, raw |-> <<"c">>])

\* A table token with a null header cell, and neither text nor raw.
BadTableTok == Token([type |-> "table", header |-> Some(<<NullCell>>), rows |-> Some(<<>>)])

TableTok ==
  Token([type |-> "table", raw |-> <<"|">>,
         header |-> Some(<<[text |-> <<"h">>, tokens |-> None]>>),
         rows |-> Some(<< <<[text |-> <<"c">>, tokens |-> None]>> >>)])

SpaceTok == Token([type |-> "space", raw |-> <<"\n", "\n">>])

HtmlTok ==
  Token([type |-> "html", text |-> <<"<", "b", ">", "x", "<", "/", "b", ">">>,
         raw |-> <<"<", "b", ">", "x", "<", "/", "b", ">">>])

ListItem(label, nested) ==
  Token([type |-> "list_item", text |-> label, raw |-> label,
         tokens |-> Some(<<Token([type |-> "text", text |-> label, raw |-> label,
                                  tokens |-> Some(<<TextToken(label)>>)])>> \o nested)])

ListTok(ordered, items) ==
  Token([type |-> "list", ordered |-> ordered, items |-> items, raw |-> <<"-">>])

\* - x ![z](./assets/images/b.png)
ImageListTok ==
  ListTok(FALSE,
          <<Token([type |-> "list_item", text |-> <<"x">>, raw |-> <<"x">>,
                   tokens |-> Some(<<Token([type |-> "text", text |-> <<"x">>,
                                            raw |-> <<"x">>,
                                            tokens |-> Some(<<TextToken(<<"x">>),
                                                              ImageToken(AppRelativeRef,
                                                                         <<"z">>)>>)])>>)])>>)

QuoteTok ==
  Token([type |-> "blockquote", text |-> <<"k">>, raw |-> <<">", " ", "k">>,
         tokens |-> Some(<<ParagraphTok>>)])

HrTok == Token([type |-> "hr", raw |-> <<"-", "-", "-">>])

\* A token of a type the switch has no case for, with a text.
OtherTok == Token([type |-> "text", text |-> <<"d">>, raw |-> <<"d">>])

\* [a]: u  -- a link reference definition: the lexer's token has a raw
\* source, a tag and a href, and no text.
DefTok == Token([type |-> "def", raw |-> <<"[", "a", "]", ":", " ", "u">>, href |-> <<"u">>])

\* The reference of an image in a table cell, and of one in a blockquote.
CellRef == <<"/home/u/", "e.png">>
QuoteRef == <<"/home/u/", "f.png">>

\* | h |      a table whose body cell holds an image
\* |---|
\* | ![z](/home/u/e.png) |
ImageTableTok ==
  Token([type |-> "table", raw |-> <<"|">>,
         header |-> Some(<<[text |-> <<"h">>, tokens |-> Some(<<TextToken(<<"h">>)>>)]>>),
         rows |-> Some(<< <<[text |-> <<"z">>,
                            tokens |-> Some(<<ImageToken(CellRef, <<"z">>)>>)]>> >>)])

\* > ![y](/home/u/f.png)
ImageQuoteTok ==
  Token([type |-> "blockquote", text |-> <<"y">>, raw |-> <<">", " ", "y">>,
         tokens |-> Some(<<Token([type |-> "paragraph", text |-> <<"y">>, raw |-> <<"y">>,
                                  tokens |-> Some(<<ImageToken(QuoteRef, <<"y">>)>>)])>>)])

\* /home/u/g.png::__buffer__ : a reference that ends like a buffer key.
SuffixRef == <<"/home/u/", "g.png", BufferSuffix>>

\* ![s](/home/u/g.png::__buffer__) at top level
SuffixImageTok == ImageToken(SuffixRef, <<"s">>)

\* The documents explored for the loading loop: images with references of
\* every shape, alone, repeated and mixed with text.
LoadDocs ==
  SeqsUpTo({ImageTok, SuffixImageTok, ImageParagraphTok, ImageListTok, ParagraphTok},
           MaxTokens)

\* The top-level tokens a lexed document is made of.
TokenPool ==
  {HeadingTok, ParagraphTok, ImageParagraphTok, TornParagraphTok, ImageTok, CodeTok,
   BadCodeTok, BadTableTok, TableTok, SpaceTok, HtmlTok, ImageListTok, QuoteTok, HrTok,
   OtherTok, DefTok, ImageTableTok, ImageQuoteTok, MixedParagraphTok}

\* The lexer's answers explored for a direct call of markdownToParagraphs.
Docs == SeqsUpTo(TokenPool, MaxTokens)

\* The lexer's answers explored for a call of convertToFormat.
ConvertDocs == {<<>>, <<ParagraphTok>>, <<ImageParagraphTok, BadCodeTok>>}

\* The list [A, B[C, D], E].
ExampleList ==
  ListTok(FALSE,
          <<ListItem(<<"A">>, <<>>),
            ListItem(<<"B">>, <<ListTok(FALSE, <<ListItem(<<"C">>, <<>>),
                                                 ListItem(<<"D">>, <<>>)>>)>>),
            ListItem(<<"E">>, <<>>)>>)

\* A list whose first item holds two nested lists, the second one ordered.
TwoNestedLists ==
  ListTok(TRUE,
          <<ListItem(<<"A">>, <<ListTok(FALSE, <<ListItem(<<"B">>, <<>>)>>),
                                ListTok(TRUE, <<ListItem(<<"C">>, <<>>),
                                                ListItem(<<"D">>, <<>>)>>)>>),
            ListItem(<<"E">>, <<>>)>>)

\* The lists of nesting depth at most d with one or two items per list;
\* an item's label is its path from the root.
RECURSIVE ListsAt(_, _)
RECURSIVE ItemsAt(_, _)
ListsAt(path, d) ==
  IF d = 0 THEN {}
  ELSE {ListTok(FALSE, <<a>>) : a \in ItemsAt(path \o <<"1">>, d)}
       \cup {ListTok(FALSE, <<a, b>>) : a \in ItemsAt(path \o <<"1">>, d),
                                        b \in ItemsAt(path \o <<"2">>, d)}
ItemsAt(path, d) ==
  {ListItem(path, nested) : nested \in {<<>>} \cup {<<l>> : l \in ListsAt(path, d - 1)}}

ListInputs ==
  {ExampleList, TwoNestedLists}
  \cup ListsAt(<<>>, MaxListDepth)
  \cup {[l EXCEPT !.ordered = TRUE] : l \in ListsAt(<<>>, MaxListDepth)}

\* Style sheets.  A paragraph record with each field set or not.
ParagraphStyles ==
  [fontFamily : {Undefined, "Arial"}, fontSize : {UndefinedNum, 10},
   lineHeight : {UndefinedNum, 20}, paragraphSpacing : {UndefinedNum, 0, 8},
   firstLineIndent : {UndefinedNum, 0, 4}]

HeadingStyles ==
  [fontFamily : {Undefined, "Arial"}, fontSize : {UndefinedNum, 10},
   lineHeight : {UndefinedNum, 20}, alignment : {Undefined, "right"},
   spacingBefore : {UndefinedNum, 0, 8}, spacingAfter : {UndefinedNum, 0, 8}]

\* A sheet with no record.
EmptySheet ==
  [paragraph |-> None, heading1 |-> None, heading2 |-> None, heading3 |-> None,
   heading4 |-> None]

\* formatSettings: absent, empty, or with the one record the call reads.
ParagraphSheets ==
  {None, Some(EmptySheet)}
  \cup {Some([EmptySheet EXCEPT !.paragraph = Some(s)]) : s \in ParagraphStyles}

HeadingSheets(key) ==
  {None, Some(EmptySheet)}
  \cup {Some([EmptySheet EXCEPT ![key] = Some(s)]) : s \in HeadingStyles}

\* The sheet of a caller that set the paragraph font only.
FontOnlySheet ==
  Some([EmptySheet EXCEPT !.paragraph =
          Some([fontFamily |-> "Arial", fontSize |-> UndefinedNum,
                lineHeight |-> UndefinedNum, paragraphSpacing |-> UndefinedNum,
                firstLineIndent |-> UndefinedNum])])

HeadingDepths == {1, 2, 3, 4, 5}

\* "**bold** and $x^2$ and `code`"
ExampleText ==
  <<"*", "*", "b", "o", "l", "d", "*", "*", " ", "a", "n", "d", " ", "$", "x", "^", "2",
    "$", " ", "a", "n", "d", " ", Backtick, "c", "o", "d", "e", Backtick>>

\* "**a$b** $c$": a bold span with a dollar sign, then a formula.
BoldWithDollar == <<"*", "*", "a", "$", "b", "*", "*", " ", "$", "c", "$">>

\* Bold spans that hold a dollar sign, with and without text around them.
BoldDollarTexts ==
  {BoldWithDollar,
   <<"*", "*", "$", "*", "*", "$">>,
   <<"a", "*", "*", "$", "a", "*", "*", "a", "$", "a">>,
   <<"*", "*", "a", "$", "*", "*", Backtick, "$", Backtick>>}

TextInputs ==
  {ExampleText} \cup BoldDollarTexts \cup StringsUpTo({"a", "$", "*", Backtick}, MaxTextLen)

\* "\alpha^2", "\frac{1}{2}", "x_{1}"
AlphaSquared == <<"\\", "a", "l", "p", "h", "a", "^", "2">>
OneHalf == <<"\\", "f", "r", "a", "c", "{", "1", "}", "{", "2", "}">>
XSubOne == <<"x", "_", "{", "1", "}">>

\* Arguments of a square root: no brace, command, script mark or blank.
SqrtArguments == {<<"x">>, <<"1">>, <<"x", "1">>, <<"a", "+", "b">>}

\* The formula \sqrt{argument}.
SqrtOf(argument) == <<"\\", "s", "q", "r", "t", "{">> \o argument \o <<"}">>

LatexInputs ==
  {AlphaSquared, OneHalf, XSubOne}
  \cup {SqrtOf(a) : a \in SqrtArguments}
  \cup {latexToUnicode[k][1] : k \in 1..Len(latexToUnicode)}
  \cup StringsUpTo({"\\", "{", "}", "^", "_", "1", "x", " "}, MaxLatexLen)

\* Markdown strings: with a two-byte character, with surrogates (paired
\* and not), with headings, a list, a fence that is never closed and a
\* fenced block.
MdExamples ==
  {<<"#", " ", "T", "\n", "\n", "-", " ", "x">>,
   <<"a", "\n", Backtick, Backtick, Backtick, "\n", "#", " ", "c", "\n", "d">>,
   <<Backtick, Backtick, Backtick, "\n", "c", "\n", Backtick, Backtick, Backtick, "\n",
     "*", "*", "b", "*", "*">>}

MdContents ==
  MdExamples \cup StringsUpTo({"a", "U+00E9", HighSurrogate, LowSurrogate}, MaxContentLen)

\* Inline tokens of kinds the switch of parseInlineTokens has no case for:
\* an escape, an inline tag, an image, an image whose alt text holds a
\* bold span, and a token with a raw source and no text.
UnknownInlineTokens ==
  {Token([type |-> "escape", text |-> <<"a">>, raw |-> <<"\\", "a">>]),
   Token([type |-> "html", text |-> <<"<", "b", ">">>, raw |-> <<"<", "b", ">">>]),
   ImageToken(PathRef, <<"z">>),
   ImageToken(PathRef, <<"*", "*", "a", "*", "*">>),
   Token([type |-> "checkbox", raw |-> <<"[", "x", "]">>])}

\* One inline token of each kind a quoted paragraph can hold: plain text,
\* text with a formula, with a code span, with a bold span, strong,
\* emphasis, strikethrough, a code span token and a link.
QuoteInlineTokens ==
  {TextToken(<<"a">>),
   TextToken(<<"$", "x", "$">>),
   TextToken(<<Backtick, "c", Backtick>>),
   TextToken(<<"*", "*", "a", "*", "*">>),
   Token([type |-> "strong", text |-> <<"s">>, raw |-> <<"*", "*", "s", "*", "*">>]),
   Token([type |-> "em", text |-> <<"e">>, raw |-> <<"*", "e", "*">>]),
   Token([type |-> "del", text |-> <<"d">>, raw |-> <<"~", "~", "d", "~", "~">>]),
   Token([type |-> "codespan", text |-> <<"c">>, raw |-> <<Backtick, "c", Backtick>>]),
   Token([type |-> "link", text |-> <<"l">>, raw |-> <<"[", "l", "]", "(", "u", ")">>,
          href |-> <<"u">>])}

\* The inline token lists explored: at most MaxInline tokens.
MaxInline == 2
InlineInputs == SeqsUpTo(QuoteInlineTokens \cup UnknownInlineTokens, MaxInline)

\* The source of a list of inline tokens.
RawOf(inline) == Join([k \in 1..Len(inline) |-> inline[k].raw])

\* The blockquote whose one paragraph holds the inline tokens.
QuoteOf(inline) ==
  Token([type |-> "blockquote", text |-> RawOf(inline),
         raw |-> <<">", " ">> \o RawOf(inline),
         tokens |-> Some(<<Token([type |-> "paragraph", text |-> RawOf(inline),
                                  raw |-> RawOf(inline),
                                  tokens |-> Some(inline)])>>)])

\* Blockquotes: with a paragraph of up to MaxInline inline tokens, with a
\* paragraph without inline tokens, and without inner tokens.
QuoteInputs ==
  {QuoteOf(inline) : inline \in SeqsUpTo(QuoteInlineTokens, MaxInline) \ {<<>>}}
  \cup {QuoteTok,
        Token([type |-> "blockquote", text |-> <<"k">>, raw |-> <<">", " ", "k">>,
               tokens |-> Some(<<Token([type |-> "paragraph", text |-> <<"k">>,
                                        raw |-> <<"k">>])>>)]),
        Token([type |-> "blockquote", text |-> <<"k">>, raw |-> <<">", " ", "k">>])}

\* The formats a caller may pass: the three of the signature, and others.
Formats == {"md", "doc", "pdf", "docx", "html"}

\* outputPath: not given, the empty string, or a path.
OutputPaths == {Undefined, "", "/docs/out"}

Paths == {"/docs/out", DefaultPath("md"), DefaultPath("docx"), DefaultPath("pdf")}

\* The bytes of a file that was there before the call.
OldBytes == <<"o", "l", "d">>

\* The file system before the call: empty, or a file at every path.
InitialFiles == {[p \in Paths |-> NoFile], [p \in Paths |-> Some(OldBytes)]}

\* ------------------------------------------------------------------------
\* The pure builders, called on their own
\* ------------------------------------------------------------------------

PureCalls ==
  {[fn |-> "latexToUnicodeText", args |-> [latex |-> s]] : s \in LatexInputs}
  \cup {[fn |-> "parseTextWithFormat",
         args |-> [text |-> s, formatSettings |-> f, baseConfig |-> EmptyConfig]] :
          s \in TextInputs, f \in {None, FontOnlySheet}}
  \cup {[fn |-> "parseInlineTokens",
         args |-> [tokens |-> t, baseConfig |-> EmptyConfig, formatSettings |-> None]] :
          t \in InlineInputs}
  \cup {[fn |-> "createBlockquoteParagraphs",
         args |-> [token |-> q, formatSettings |-> None]] : q \in QuoteInputs}
  \cup {[fn |-> "createListItemParagraphs",
         args |-> [token |-> l, level |-> 0, formatSettings |-> None]] : l \in ListInputs}
  \cup UNION {{[fn |-> "createHeadingParagraph",
                args |-> [token |-> [HeadingTok EXCEPT !.depth = d],
                          formatSettings |-> f]] :
                 f \in HeadingSheets(HeadingKey([depth |-> d]))} : d \in HeadingDepths}
  \cup {[fn |-> "createParagraphElement",
         args |-> [token |-> ParagraphTok, formatSettings |-> f]] : f \in ParagraphSheets}

\* A pure function is called and returns value.
Return(fn, value) ==
  /\ pc = "call"
  /\ call.fn = fn
  /\ pc' = "returned"
  /\ ret' = value
  /\ UNCHANGED <<call, second, homework, before, files, lexed, filePath, passVars, buffer,
                 error, failedStage>>

CallLatexToUnicodeText ==
  Return("latexToUnicodeText", latexToUnicodeText(call.args.latex))

CallParseTextWithFormat ==
  Return("parseTextWithFormat",
         parseTextWithFormat(call.args.text, call.args.formatSettings,
                             call.args.baseConfig))

CallParseInlineTokens ==
  Return("parseInlineTokens",
         parseInlineTokens(call.args.tokens, call.args.baseConfig,
                           call.args.formatSettings))

CallCreateBlockquoteParagraphs ==
  Return("createBlockquoteParagraphs",
         createBlockquoteParagraphs(call.args.token, call.args.formatSettings))

CallCreateListItemParagraphs ==
  Return("createListItemParagraphs",
         createListItemParagraphs(call.args.token, call.args.level,
                                  call.args.formatSettings))

CallCreateHeadingParagraph ==
  Return("createHeadingParagraph",
         createHeadingParagraph(call.args.token, call.args.formatSettings))

CallCreateParagraphElement ==
  Return("createParagraphElement",
         createParagraphElement(call.args.token, call.args.formatSettings))

\* ------------------------------------------------------------------------
\* Specifications
\* ------------------------------------------------------------------------

\* The locals of a second call when there is none.
NoSecondCall ==
  [pc |-> "none", outputPath |-> Undefined, lexed |-> <<>>, filePath |-> Undefined,
   tokens |-> <<>>, imageMap |-> <<>>, cursor |-> 0, loads |-> <<>>, elements |-> <<>>,
   done |-> 0, buffer |-> None, ret |-> None, error |-> None]

\* processHomework before its first step: no result, no call, no callback.
NoHomework == [step |-> 1, results |-> <<>>, log |-> <<>>]

\* Nothing has run yet.
Fresh ==
  /\ filePath = Undefined
  /\ tokens = <<>>
  /\ imageMap = <<>>
  /\ cursor = 0
  /\ loads = <<>>
  /\ elements = <<>>
  /\ done = 0
  /\ buffer = None
  /\ ret = None
  /\ error = None
  /\ failedStage = "none"
  /\ second = NoSecondCall
  /\ homework = NoHomework

\* A call of convertToFormat.
Init ==
  /\ call \in {[fn |-> "convertToFormat",
                args |-> [mdContent |-> m, format |-> f, outputPath |-> p,
                          formatSettings |-> None]] :
                 m \in MdContents, f \in Formats, p \in OutputPaths}
  /\ pc = "convertToFormat"
  /\ files \in InitialFiles
  /\ before = files
  /\ lexed \in ConvertDocs
  /\ Fresh

Next ==
  \/ ConvertMd \/ WriteMd
  \/ ConvertDoc \/ Lex \/ LoadImage \/ SkipBufferKey \/ LoadDone \/ BuildToken
  \/ ReturnElements \/ Pack \/ WriteDocx
  \/ ConvertPdf \/ RenderPdf \/ EndPdf \/ WritePdf
  \/ ConvertUnsupported

Spec == Init /\ [][Next]_vars

\* A direct call of markdownToParagraphs.
InitM2P ==
  /\ call \in {[fn |-> "markdownToParagraphs",
                args |-> [mdContent |-> <<>>, formatSettings |-> f]] :
                 f \in {None, FontOnlySheet}}
  /\ pc = "markdownToParagraphs"
  /\ files = [p \in Paths |-> NoFile]
  /\ before = files
  /\ lexed \in Docs
  /\ Fresh

NextM2P == Lex \/ LoadImage \/ SkipBufferKey \/ LoadDone \/ BuildToken \/ ReturnElements

SpecM2P == InitM2P /\ [][NextM2P]_vars

\* A call of one of the pure builders.
InitPure ==
  /\ call \in PureCalls
  /\ pc = "call"
  /\ files = [p \in Paths |-> NoFile]
  /\ before = files
  /\ lexed = <<>>
  /\ Fresh

NextPure ==
  \/ CallLatexToUnicodeText
  \/ CallParseTextWithFormat
  \/ CallParseInlineTokens
  \/ CallCreateBlockquoteParagraphs
  \/ CallCreateListItemParagraphs
  \/ CallCreateHeadingParagraph
  \/ CallCreateParagraphElement

SpecPure == InitPure /\ [][NextPure]_vars

\* The loading loop is at await fetch(imagePath) for a remote reference.
AwaitingFetch ==
  /\ pc = "loadImages"
  /\ cursor <= Len(imageMap)
  /\ ~IsBufferKey(imageMap[cursor].key)
  /\ RefClass(imageMap[cursor].key) = "remote"

\* A direct call of markdownToParagraphs that is always scheduled: every
\* step that depends on the program and on the file system alone is
\* eventually taken.  The promise of fetch is settled by the remote host,
\* and the call sets no timeout and passes no abort signal: nothing makes
\* a step out of AwaitingFetch happen.
LiveM2P == SpecM2P /\ WF_vars(NextM2P /\ ~AwaitingFetch)

\* A direct call of markdownToParagraphs on a document of LoadDocs.
InitLoad ==
  /\ call = [fn |-> "markdownToParagraphs",
             args |-> [mdContent |-> <<>>, formatSettings |-> None]]
  /\ pc = "markdownToParagraphs"
  /\ files = [p \in Paths |-> NoFile]
  /\ before = files
  /\ lexed \in LoadDocs
  /\ Fresh

\* The pass when every read and every fetch ends: each step that is
\* enabled is eventually taken.
SpecLoad == InitLoad /\ [][NextM2P]_vars /\ WF_vars(NextM2P)

\* ------------------------------------------------------------------------
\* Two calls of convertToFormat in flight
\* ------------------------------------------------------------------------

\* The first call's variables, the file system apart.
firstVars ==
  <<call, pc, before, lexed, filePath, tokens, imageMap, cursor, loads, elements, done,
    buffer, ret, error, failedStage, homework>>

\* The second call, format 'doc': the path is chosen and
\* markdownToParagraphs is called.
SecondConvertDoc ==
  /\ second.pc = "convertToFormat"
  /\ second' = [second EXCEPT !.filePath = OrName(second.outputPath, DefaultPath("docx")),
                              !.pc = "markdownToParagraphs"]
  /\ UNCHANGED <<firstVars, files>>

\* const elements = [], const imageMap = new Map(), the lexer and the scan
\* of the second call.
SecondLex ==
  /\ second.pc = "markdownToParagraphs"
  /\ second' = [second EXCEPT !.tokens = second.lexed,
                              !.elements = <<>>,
                              !.imageMap = collectImagePaths(second.lexed, <<>>),
                              !.cursor = 1,
                              !.pc = "loadImages"]
  /\ UNCHANGED <<firstVars, files>>

\* A faulty variant of SecondLoadImage: the map is one object of the
\* module, so the buffer lands in the map the first call reads.
SecondLoadImageSharedMap ==
  /\ second.pc = "loadImages"
  /\ second.cursor <= Len(second.imageMap)
  /\ ~IsBufferKey(second.imageMap[second.cursor].key)
  /\ \E outcome \in LoadOutcomes :
       imageMap' = AfterLoad(imageMap, second.imageMap[second.cursor].key, outcome)
  /\ second' = [second EXCEPT !.loads = Append(@, second.imageMap[second.cursor].key),
                              !.cursor = @ + 1]
  /\ UNCHANGED <<call, pc, before, lexed, filePath, tokens, cursor, loads, elements, done,
                 buffer, ret, error, failedStage, files, homework>>

\* One iteration of the second call's loading loop on a reference.
SecondLoadImage ==
  /\ second.pc = "loadImages"
  /\ second.cursor <= Len(second.imageMap)
  /\ ~IsBufferKey(second.imageMap[second.cursor].key)
  /\ \E outcome \in LoadOutcomes :
       second' = [second EXCEPT
                    !.imageMap = AfterLoad(@, second.imageMap[second.cursor].key, outcome),
                    !.loads = Append(@, second.imageMap[second.cursor].key),
                    !.cursor = @ + 1]
  /\ UNCHANGED <<firstVars, files>>

\* One iteration of the second call's loading loop on a buffer key.
SecondSkipBufferKey ==
  /\ second.pc = "loadImages"
  /\ second.cursor <= Len(second.imageMap)
  /\ IsBufferKey(second.imageMap[second.cursor].key)
  /\ second' = [second EXCEPT !.cursor = @ + 1]
  /\ UNCHANGED <<firstVars, files>>

\* The second call's loading loop ends and its token loop runs: the loop
\* has no await, so no step of the other call comes between its
\* iterations.
SecondBuildElements ==
  /\ second.pc = "loadImages"
  /\ second.cursor > Len(second.imageMap)
  /\ \E embeds \in [1..Len(second.tokens) -> BOOLEAN] :
       second' = [second EXCEPT
                    !.elements =
                       Join([k \in 1..Len(second.tokens) |->
                               TokenElements(second.tokens[k], second.imageMap, None,
                                             embeds[k])]),
                    !.done = Len(second.tokens),
                    !.pc = "pack"]
  /\ UNCHANGED <<firstVars, files>>

\* new Document(...) and await Packer.toBuffer(doc) of the second call.
SecondPack ==
  /\ second.pc = "pack"
  /\ \/ second' = [second EXCEPT !.buffer = Some(PackerToBuffer(second.elements)),
                                 !.pc = "writeDocx"]
     \/ second' = [second EXCEPT !.error = Some(WordError(<<"packer">>)), !.pc = "threw"]
  /\ UNCHANGED <<firstVars, files>>

\* await fs.writeFile(filePath, buffer) of the second call.
SecondWriteDocx ==
  /\ second.pc = "writeDocx"
  /\ \E written \in WriteOutcomes(second.buffer[1].bytes) :
       /\ files' = AfterWrite(files, second.filePath, second.buffer[1].bytes, written)
       /\ second' =
            IF written = Len(second.buffer[1].bytes)
            THEN [second EXCEPT !.pc = "returned",
                                !.ret = [path |-> second.filePath, buffer |-> second.buffer]]
            ELSE [second EXCEPT !.pc = "threw",
                                !.error = Some(WordError(WriteError(written)))]
  /\ UNCHANGED firstVars

\* The documents of the two calls: the same image reference in both, and
\* references of their own.
TwoDocs == {<<ImageTok>>, <<ImageParagraphTok, ImageTok>>, <<ParagraphTok>>}

\* The output paths of the second call: the first call's, or the default.
SecondPaths == {"/docs/out", Undefined}

\* Two calls of convertToFormat(md, 'doc', path) are made one after the
\* other, before any of their awaits has ended.
InitTwo ==
  /\ call = [fn |-> "convertToFormat",
             args |-> [mdContent |-> <<>>, format |-> "doc", outputPath |-> "/docs/out",
                       formatSettings |-> None]]
  /\ pc = "convertToFormat"
  /\ files = [p \in Paths |-> NoFile]
  /\ before = files
  /\ lexed \in TwoDocs
  /\ filePath = Undefined
  /\ tokens = <<>>
  /\ imageMap = <<>>
  /\ cursor = 0
  /\ loads = <<>>
  /\ elements = <<>>
  /\ done = 0
  /\ buffer = None
  /\ ret = None
  /\ error = None
  /\ failedStage = "none"
  /\ homework = NoHomework
  /\ second \in {[NoSecondCall EXCEPT !.pc = "convertToFormat", !.outputPath = p,
                                      !.lexed = d] : p \in SecondPaths, d \in TwoDocs}

\* A step of the first call, or a step of the second.
NextTwo ==
  \/ ConvertDoc \/ Lex \/ LoadImage \/ SkipBufferKey \/ LoadDone \/ BuildToken
  \/ ReturnElements \/ Pack \/ WriteDocx
  \/ SecondConvertDoc \/ SecondLex \/ SecondLoadImage \/ SecondSkipBufferKey
  \/ SecondBuildElements \/ SecondPack \/ SecondWriteDocx

SpecTwo == InitTwo /\ [][NextTwo]_vars

\* ------------------------------------------------------------------------
\* processHomework (src/electron/services/llmService.ts and its earlier
\* revision src/electron/llmService.ts)
\* ------------------------------------------------------------------------

\* The steps, in the order of the function body.
StepNames == <<"format", "questions", "final">>

\* !s || !s.trim()
IsBlank(s) == trim(s) = <<>>

\* The event of a call of callLLMInternal made for a step (or for the
\* direct generation), with the earlier results its prompt is built from.
LlmCall(step, uses) == [kind |-> "llm", step |-> step, uses |-> uses]

\* The event of a call of onStepComplete with the result of a step.
Callback(result) == [kind |-> "callback", step |-> result.step, uses |-> <<result.content>>]

\* What the model answers for a step.
AnswerOf(step) == <<"answer-of-", step>>

\* { step, content, timestamp }
StepResult(step, content) == [step |-> step, content |-> content]

\* The contents of the results so far that the prompt of a step quotes:
\* generateFinalMarkdown gets formatTemplate.content and
\* questionsAnswer.content, the first two steps get none.
Quoted(step, results) ==
  IF step = "final" THEN [k \in 1..Len(results) |-> results[k].content] ELSE <<>>

\* if (onStepComplete) onStepComplete(result), for each result in turn
CallbacksFor(results) ==
  IF call.args.onStepComplete THEN [k \in 1..Len(results) |-> Callback(results[k])] ELSE <<>>

\* The revision with the direct generation takes it when there is no file
\* content.
TakesDirect ==
  call.args.revision = "services/llmService.ts" /\ IsBlank(call.args.fileContent)

\* The guard on the prompt, and the choice of the mode.
CheckPrompt ==
  /\ pc = "processHomework"
  /\ IF IsBlank(call.args.prompt)
     THEN Throw(Error(<<"empty prompt">>), "dispatch")
     ELSE /\ pc' = IF TakesDirect THEN "startDirect" ELSE "startStep"
          /\ UNCHANGED <<error, failedStage>>
  /\ UNCHANGED <<call, second, homework, before, files, lexed, filePath, passVars, buffer,
                 ret>>

\* The step function is called: it builds its prompt and awaits
\* callLLMInternal.
StartStep ==
  /\ pc = "startStep"
  /\ homework' = [homework EXCEPT
                    !.log = Append(@, LlmCall(StepNames[homework.step],
                                              Quoted(StepNames[homework.step],
                                                     homework.results)))]
  /\ pc' = "awaitStep"
  /\ UNCHANGED <<call, second, before, files, lexed, filePath, passVars, buffer, ret, error,
                 failedStage>>

\* A faulty variant of EndStep: a step that fails is passed over, and the
\* next step is started.
EndStepPassingOverFailure ==
  /\ pc = "awaitStep"
  /\ \/ /\ homework' =
             [homework EXCEPT
                !.results = Append(@, StepResult(StepNames[homework.step],
                                                 AnswerOf(StepNames[homework.step]))),
                !.log = @ \o CallbacksFor(<<StepResult(StepNames[homework.step],
                                                       AnswerOf(StepNames[homework.step]))>>),
                !.step = @ + 1]
        /\ IF homework.step = Len(StepNames)
           THEN pc' = "returned" /\ ret' = homework'.results
           ELSE pc' = "startStep" /\ UNCHANGED ret
     \/ /\ homework.step < Len(StepNames)
        /\ homework' = [homework EXCEPT !.step = @ + 1]
        /\ pc' = "startStep"
        /\ UNCHANGED ret
  /\ UNCHANGED <<call, second, before, files, lexed, filePath, passVars, buffer, error,
                 failedStage>>

\* The await of a step ends.  The call answered: the result is kept, the
\* callback, if any, is called with it, and the next step follows, or the
\* three results are returned.  The call was rejected: processHomework
\* rejects.
EndStep ==
  /\ pc = "awaitStep"
  /\ \/ /\ homework' =
             [homework EXCEPT
                !.results = Append(@, StepResult(StepNames[homework.step],
                                                 AnswerOf(StepNames[homework.step]))),
                !.log = @ \o CallbacksFor(<<StepResult(StepNames[homework.step],
                                                       AnswerOf(StepNames[homework.step]))>>),
                !.step = @ + 1]
        /\ IF homework.step = Len(StepNames)
           THEN pc' = "returned" /\ ret' = homework'.results
           ELSE pc' = "startStep" /\ UNCHANGED ret
        /\ UNCHANGED <<error, failedStage>>
     \/ /\ Throw(Error(<<"llm">>), "transform")
        /\ UNCHANGED <<homework, ret>>
  /\ UNCHANGED <<call, second, before, files, lexed, filePath, passVars, buffer>>

\* directGeneration builds its prompt and awaits callLLMInternal.
StartDirect ==
  /\ pc = "startDirect"
  /\ homework' = [homework EXCEPT !.log = Append(@, LlmCall("direct", <<>>))]
  /\ pc' = "awaitDirect"
  /\ UNCHANGED <<call, second, before, files, lexed, filePath, passVars, buffer, ret, error,
                 failedStage>>

\* The three results directGeneration makes of the one answer.
DirectResults ==
  <<StepResult("format", <<"mode: direct, prompt">>),
    StepResult("questions", <<"mode: direct, generated">>),
    StepResult("final", AnswerOf("direct"))>>

\* The await of directGeneration ends: the three results are made, the
\* callback is called with each, and they are returned; or the call was
\* rejected.
EndDirect ==
  /\ pc = "awaitDirect"
  /\ \/ /\ homework' = [homework EXCEPT !.results = DirectResults,
                                        !.log = @ \o CallbacksFor(DirectResults),
                                        !.step = Len(StepNames) + 1]
        /\ pc' = "returned"
        /\ ret' = DirectResults
        /\ UNCHANGED <<error, failedStage>>
     \/ /\ Throw(Error(<<"llm">>), "transform")
        /\ UNCHANGED <<homework, ret>>
  /\ UNCHANGED <<call, second, before, files, lexed, filePath, passVars, buffer>>

\* The prompts and file contents explored: empty, blank, and with text.
HomeworkTexts == {<<>>, <<" ", "\n">>, <<"t">>}

\* A call of processHomework of one of the two revisions, with or without
\* a callback.
InitHomework ==
  /\ call \in {[fn |-> "processHomework",
                args |-> [prompt |-> p, fileContent |-> f, onStepComplete |-> c,
                          revision |-> r]] :
                 p \in HomeworkTexts, f \in HomeworkTexts, c \in BOOLEAN,
                 r \in {"llmService.ts", "services/llmService.ts"}}
  /\ pc = "processHomework"
  /\ files = [p \in Paths |-> NoFile]
  /\ before = files
  /\ lexed = <<>>
  /\ Fresh

NextHomework == CheckPrompt \/ StartStep \/ EndStep \/ StartDirect \/ EndDirect

SpecHomework == InitHomework /\ [][NextHomework]_vars

\* ------------------------------------------------------------------------
\* Properties of the pure builders (SpecPure)
\* ------------------------------------------------------------------------

\* The call of fn has returned.
Returned(fn) == pc = "returned" /\ call.fn = fn

\* C7: latexToUnicodeText maps "\alpha^2" to the two glyphs alpha and
\* superscript two, "\frac{1}{2}" to "(1/2)", and "x_{1}" to x followed by
\* subscript one.
C7_TranscoderExamples ==
  Returned("latexToUnicodeText") =>
    /\ call.args.latex = AlphaSquared => ret = <<"U+03B1", "U+00B2">>
    /\ call.args.latex = OneHalf => ret = <<"(", "1", "/", "2", ")">>
    /\ call.args.latex = XSubOne => ret = <<"x", "U+2081">>

\* The transcoder has returned for the formula with a command and a script.
C7_Witness ==
  Returned("latexToUnicodeText") /\ call.args.latex = AlphaSquared /\ Len(ret) = 2

\* What kind of run the builder made, read off the run's properties.
RunKind(run) ==
  CASE run.font = "Cambria Math" -> "math"
    [] run.font = "Courier New" -> "code"
    [] run.bold -> "bold"
    [] OTHER -> "plain"

\* The kinds and texts of a sequence of runs.
KindsAndTexts(runs) == [k \in 1..Len(runs) |-> <<RunKind(runs[k]), runs[k].text>>]

\* The five runs the example is made of.
ExampleRuns ==
  << <<"bold", <<"b", "o", "l", "d">> >>,
     <<"plain", <<" ", "a", "n", "d", " ">> >>,
     <<"math", <<"x", "U+00B2">> >>,
     <<"plain", <<" ", "a", "n", "d", " ">> >>,
     <<"code", <<"c", "o", "d", "e">> >> >>

\* C6 (as the code has it): for the example text, parseTextWithFormat
\* returns exactly five runs, in order bold "bold", plain " and ", math
\* "x" with superscript two, plain " and ", code "code": every piece of
\* the text is in one run and no run spans two styles.
C6_ExampleRuns ==
  (Returned("parseTextWithFormat") /\ call.args.text = ExampleText) =>
    /\ Len(ret) = 5
    /\ KindsAndTexts(ret) = ExampleRuns
    /\ ret[3].italics /\ ret[5].shading = "F0F0F0"
    /\ \A k \in {2, 4} : ~ret[k].italics /\ ret[k].shading = Undefined

\* The run builder has returned for the example text.
C6_Witness ==
  Returned("parseTextWithFormat") /\ call.args.text = ExampleText /\ Len(ret) > 1

\* C6 (as stated): for the example text, parseTextWithFormat returns
\* exactly six runs, the five listed ones in order among them.
C6_SixRuns ==
  (Returned("parseTextWithFormat") /\ call.args.text = ExampleText) =>
    /\ Len(ret) = 6
    /\ SubSeq(KindsAndTexts(ret), 1, 5) = ExampleRuns

\* The items of a list tree in pre-order, each with its nesting level: an
\* item, then the items of the lists nested in it, then its next sibling.
RECURSIVE PreOrder(_, _)
PreOrder(list, level) ==
  Join([k \in 1..Len(list.items) |->
          <<[label |-> list.items[k].text, level |-> level]>>
          \o (IF list.items[k].tokens = None THEN <<>>
              ELSE Join([j \in 1..Len(list.items[k].tokens[1]) |->
                           IF list.items[k].tokens[1][j].type = "list"
                           THEN PreOrder(list.items[k].tokens[1][j], level + 1)
                           ELSE <<>>]))])

\* The number of items in a list tree.
RECURSIVE CountItems(_)
CountItems(list) ==
  LET nestedOf(item) ==
        IF item.tokens = None THEN <<>>
        ELSE SelectSeq(item.tokens[1], LAMBDA t : t.type = "list")
      RECURSIVE Sum(_)
      Sum(lists) == IF lists = <<>> THEN 0 ELSE CountItems(Head(lists)) + Sum(Tail(lists))
  IN  Len(list.items)
      + Sum(Join([k \in 1..Len(list.items) |-> nestedOf(list.items[k])]))

\* What a list paragraph shows: the text after the prefix run, and the
\* level its left indent of 720 * (level + 1) stands for.
Emitted(paragraphs) ==
  [k \in 1..Len(paragraphs) |->
     [label |-> Join([r \in 1..(Len(paragraphs[k].children) - 1) |->
                        paragraphs[k].children[r + 1].text]),
      level |-> (paragraphs[k].indent.left \div 720) - 1]]

\* C4: createListItemParagraphs emits the items of a nested list in
\* pre-order, each at its own level, an item followed at once by the items
\* of its nested lists one level deeper; [A, B[C, D], E] gives A0 B0 C1 D1
\* E0; and there are as many paragraphs as items in the tree.
C4_PreOrderFlattening ==
  Returned("createListItemParagraphs") =>
    /\ Emitted(ret) = PreOrder(call.args.token, call.args.level)
    /\ Len(ret) = CountItems(call.args.token)
    /\ \A k \in 1..Len(ret) : ret[k].indent.left = 720 * (Emitted(ret)[k].level + 1)
    /\ call.args.token = ExampleList =>
         Emitted(ret) = <<[label |-> <<"A">>, level |-> 0], [label |-> <<"B">>, level |-> 0],
                          [label |-> <<"C">>, level |-> 1], [label |-> <<"D">>, level |-> 1],
                          [label |-> <<"E">>, level |-> 0]>>

\* The example list has been flattened, to five paragraphs.
C4_Witness ==
  Returned("createListItemParagraphs") /\ call.args.token = ExampleList /\ Len(ret) = 5

\* The value used for a field: the supplied one when it is set, the
\* built-in default of the field otherwise.
Resolved(supplied, default) == IF supplied = UndefinedNum THEN default ELSE supplied

\* The same for a field that holds a name.
ResolvedName(supplied, default) == IF supplied = Undefined THEN default ELSE supplied

\* The record of a sheet a call reads, every field unset when it is absent.
SuppliedStyle(formatSettings, key, unset) ==
  IF formatSettings = None \/ formatSettings[1][key] = None THEN unset
  ELSE formatSettings[1][key][1]

UnsetHeadingStyle ==
  [fontFamily |-> Undefined, fontSize |-> UndefinedNum, lineHeight |-> UndefinedNum,
   alignment |-> Undefined, spacingBefore |-> UndefinedNum, spacingAfter |-> UndefinedNum]

UnsetParagraphStyle ==
  [fontFamily |-> Undefined, fontSize |-> UndefinedNum, lineHeight |-> UndefinedNum,
   paragraphSpacing |-> UndefinedNum, firstLineIndent |-> UndefinedNum]

\* The heading was built with field-level fallback.
HeadingFallsBackByField ==
  LET key == HeadingKey(call.args.token)
      given == SuppliedStyle(call.args.formatSettings, key, UnsetHeadingStyle)
      default == defaultHeadingStyles[key]
      run == ret.children[1]
  IN  /\ run.font = ResolvedName(given.fontFamily, default.fontFamily)
      /\ run.size = Resolved(given.fontSize, default.fontSize) * 2
      /\ ret.alignment = getAlignment(ResolvedName(given.alignment, default.alignment))
      /\ ret.spacing.before = Resolved(given.spacingBefore, default.spacingBefore) * 20
      /\ ret.spacing.after = Resolved(given.spacingAfter, default.spacingAfter) * 20
      /\ ret.spacing.line = Resolved(given.lineHeight, default.lineHeight) * 24

\* The paragraph was built with field-level fallback.
ParagraphFallsBackByField ==
  LET given == SuppliedStyle(call.args.formatSettings, "paragraph", UnsetParagraphStyle)
      run == ret.children[1]
      fontSize == Resolved(given.fontSize, defaultStyles.fontSize)
      indentChars == Resolved(given.firstLineIndent, defaultStyles.firstLineIndent)
  IN  /\ run.font = ResolvedName(given.fontFamily, defaultStyles.fontFamily)
      /\ run.size = fontSize * 2
      /\ ret.spacing.after
           = Resolved(given.paragraphSpacing, defaultStyles.paragraphSpacing) * 20
      /\ ret.spacing.line = Resolved(given.lineHeight, defaultStyles.lineHeight) * 24
      /\ ret.indent.firstLine
           = IF indentChars > 0 THEN indentChars * fontSize * 20 ELSE UndefinedNum

\* C5 (as stated): whatever part of the style sheet is absent, every style
\* value a heading or a paragraph is built with is the supplied value when
\* it is set and the built-in default of that field otherwise, and none is
\* undefined or NaN.
C5_FieldLevelFallback ==
  /\ Returned("createHeadingParagraph") =>
       /\ HeadingFallsBackByField
       /\ ret.children[1].font # Undefined
       /\ {ret.children[1].size, ret.spacing.before, ret.spacing.after, ret.spacing.line}
            \cap {NaN, UndefinedNum} = {}
  /\ Returned("createParagraphElement") =>
       /\ ParagraphFallsBackByField
       /\ ret.children[1].font # Undefined
       /\ {ret.children[1].size, ret.spacing.after, ret.spacing.line}
            \cap {NaN, UndefinedNum} = {}

\* ------------------------------------------------------------------------
\* Properties of convertToFormat (Spec)
\* ------------------------------------------------------------------------

\* A string without a surrogate that has no partner.
RECURSIVE WellFormed(_)
WellFormed(s) ==
  IF s = <<>> THEN TRUE
  ELSE IF HasAt(s, 1, <<HighSurrogate, LowSurrogate>>) THEN WellFormed(SubSeq(s, 3, Len(s)))
  ELSE s[1] \notin {HighSurrogate, LowSurrogate} /\ WellFormed(Tail(s))

\* The call converts to the given format.
Converts(format) == call.fn = "convertToFormat" /\ call.args.format = format

\* The file at path holds bytes that read back as the string s.
HoldsText(path, s) ==
  /\ path \in DOMAIN files
  /\ files[path] # NoFile
  /\ Utf8Decode(files[path][1]) = s

\* C1 (as the code has it): when convertToFormat(m, 'md', p) returns, for
\* a Markdown string m without unpaired surrogates and a path p that is not
\* empty, the file at p holds the UTF-8 encoding of m, which reads back as
\* m, and the result path is p.  For any m and p the file written is the
\* one at the result path and holds the UTF-8 encoding of m, and the result
\* path is p unless p is empty or not given.
C1_MdPassThrough ==
  (Converts("md") /\ pc = "returned") =>
    /\ files[ret.path] = Some(Utf8Encode(call.args.mdContent))
    /\ ret.path = OrName(call.args.outputPath, DefaultPath("md"))
    /\ \A p \in Paths \ {ret.path} : files[p] = before[p]
    /\ (WellFormed(call.args.mdContent) /\ call.args.outputPath \notin {Undefined, ""}) =>
         /\ HoldsText(call.args.outputPath, call.args.mdContent)
         /\ ret.path = call.args.outputPath

\* An md call whose Markdown holds a two-byte character has
\* returned, over a file that was there.
C1_Witness ==
  /\ Converts("md") /\ pc = "returned"
  /\ call.args.mdContent = <<"U+00E9", "a">>
  /\ call.args.outputPath = "/docs/out"
  /\ before["/docs/out"] = Some(OldBytes)
  /\ files["/docs/out"] = Some(<<"C3", "A9", "a">>)

\* C1 (as stated): for every Markdown string m and output path p (a path
\* that is given and not empty), the call writes to p content identical
\* to m and returns p.
C1_ByteIdentical ==
  (Converts("md") /\ pc = "returned" /\ call.args.outputPath \notin {Undefined, ""}) =>
    /\ HoldsText(call.args.outputPath, call.args.mdContent)
    /\ ret.path = call.args.outputPath

\* The message of the error thrown begins with the tag.
HasTag(tag) == error # None /\ HasAt(error[1].message, 1, tag)

\* C8: for a format other than md, doc and pdf, convertToFormat throws an
\* error whose message names the format, and no step of the call writes a
\* file.
C8_UnsupportedFormat ==
  (call.fn = "convertToFormat" /\ call.args.format \notin {"md", "doc", "pdf"}) =>
    /\ files = before
    /\ pc \in {"convertToFormat", "threw"}
    /\ pc = "threw" =>
         /\ error = Some(Error(UnsupportedFormat \o <<call.args.format>>))
         /\ ret = None

\* A call with the format 'docx' has thrown.
C8_Witness ==
  /\ call.fn = "convertToFormat" /\ call.args.format = "docx"
  /\ pc = "threw"
  /\ HasTag(UnsupportedFormat)
  /\ before["/docs/out"] = Some(OldBytes)

\* The stage a tag stands for: the conversion for the Word and PDF tags,
\* the choice of the branch for the tag of an unsupported format.
StageOfTag ==
  IF HasTag(UnsupportedFormat) THEN "dispatch"
  ELSE IF HasTag(WordFailed) \/ HasTag(PdfFailed) THEN "transform"
  ELSE "none"

\* C9 (as stated): every failure of convertToFormat, for md, Word and PDF,
\* while transforming or while writing, reaches the caller as one tagged
\* error whose tag identifies the stage that failed.
C9_TaggedByStage ==
  (call.fn = "convertToFormat" /\ pc = "threw") =>
    /\ HasTag(UnsupportedFormat) \/ HasTag(WordFailed) \/ HasTag(PdfFailed)
    /\ StageOfTag = failedStage

\* C10 (as stated): when convertToFormat fails for Word or PDF, the output
\* path holds a complete output or is exactly as it was before the call.
C10_NoHalfWrittenFile ==
  (pc = "threw" /\ (Converts("doc") \/ Converts("pdf"))) =>
    \/ files[filePath] = before[filePath]
    \/ buffer # None /\ files[filePath] = Some(buffer[1].bytes)

\* ------------------------------------------------------------------------
\* Properties of markdownToParagraphs (SpecM2P)
\* ------------------------------------------------------------------------

\* The image tokens the token loop meets in a top-level token: the token
\* itself, or the image children of a paragraph.
ImagesOf(token) ==
  IF token.type = "image" THEN <<token>>
  ELSE IF token.type = "paragraph" /\ token.tokens # None
  THEN SelectSeq(token.tokens[1], LAMBDA t : t.type = "image")
  ELSE <<>>

\* No bytes are held for the image's reference.
Unresolved(imageToken) ==
  LET held == MapGet(imageMap, imageToken.href \o <<BufferSuffix>>)
  IN  held = None \/ held[1] = <<>>

\* The element is a placeholder that records the reference: a grey italic
\* paragraph whose text ends with the reference in parentheses.
IsPlaceholderFor(element, ref) ==
  /\ Len(element.children) = 1
  /\ "text" \in DOMAIN element.children[1]
  /\ LET run == element.children[1]
         n == Len(run.text)
     IN  /\ run.color = "999999" /\ run.italics
         /\ HasAt(run.text, 1, <<"[", "U+56FE", "U+7247", ":", " ">>)
         /\ n >= Len(ref) + 2
         /\ SubSeq(run.text, n - Len(ref) - 1, n) = <<"(">> \o ref \o <<")">>

\* The element shows an embedded image.
IsEmbeddedImage(element) ==
  Len(element.children) = 1 /\ "data" \in DOMAIN element.children[1]

\* The number of elements that show an embedded image.
EmbeddedCount(appended) ==
  Cardinality({e \in 1..Len(appended) : IsEmbeddedImage(appended[e])})

\* The number of images whose bytes are held.
ResolvedCount(images) ==
  Cardinality({k \in 1..Len(images) : ~Unresolved(images[k])})

\* The elements the step appends.
Appended == SubSeq(elements', Len(elements) + 1, Len(elements'))

\* C2: in the token loop, every image without bytes (a top-level image
\* token or an image child of a top-level paragraph) gets a placeholder
\* that records its reference verbatim and no embedded image (the token
\* gets no more embedded images than it has images with bytes), and the
\* loop goes on: no step of the pass ends it with an exception.
C2_ImagePlaceholder ==
  /\ [](call.fn = "markdownToParagraphs" => pc # "threw")
  /\ [][(pc = "buildElements" /\ done' = done + 1) =>
          /\ pc' = "buildElements"
          /\ \A k \in 1..Len(ImagesOf(tokens[done + 1])) :
               Unresolved(ImagesOf(tokens[done + 1])[k]) =>
                 /\ \E e \in 1..Len(Appended) :
                      IsPlaceholderFor(Appended[e], ImagesOf(tokens[done + 1])[k].href)
                 /\ EmbeddedCount(Appended) <= ResolvedCount(ImagesOf(tokens[done + 1]))]_vars

\* The pass has returned for a document with the top-level image, whose
\* file could not be read: the placeholder with the reference is there.
C2_Witness ==
  /\ call.fn = "markdownToParagraphs" /\ pc = "returned"
  /\ tokens = <<ImageTok, ParagraphTok>>
  /\ loads = <<PathRef>> /\ Unresolved(ImageTok)
  /\ Len(ret) = 2 /\ IsPlaceholderFor(ret[1], PathRef)

\* The handler of the token throws.
Throws(token) == HandleToken(token, imageMap, call.args.formatSettings, TRUE).threw

\* The number of elements the claim counts for a token: one fallback when
\* its handler throws, what the handler pushes otherwise.
RECURSIVE ExpectedCount(_)
ExpectedCount(toks) ==
  IF toks = <<>> THEN 0
  ELSE (IF Throws(Head(toks)) THEN 1
        ELSE Len(HandleToken(Head(toks), imageMap, call.args.formatSettings,
                             TRUE).pushed))
       + ExpectedCount(Tail(toks))

\* C3 (as stated): when the handler of a token throws, the tokens after it
\* are still converted, and the pass returns as many elements as the
\* handlers that do not throw push, plus exactly one fallback for each
\* token whose handler throws.
C3_OneFallbackPerThrow ==
  (call.fn = "markdownToParagraphs" /\ pc = "returned") =>
    /\ done = Len(tokens)
    /\ Len(ret) = ExpectedCount(tokens)

\* ------------------------------------------------------------------------
\* Properties of the token loop and of the image loading (SpecM2P)
\* ------------------------------------------------------------------------

\* The step is one iteration of the token loop.
TokenStep == pc = "buildElements" /\ done' = done + 1

\* C11 (as stated): every iteration of the token loop of
\* markdownToParagraphs, whatever the kind of its token, appends at least
\* one element to the output.
C11_EveryTokenContributes ==
  [][TokenStep => Len(elements') > Len(elements)]_vars

\* The step is one iteration of the loading loop that issues a read or a
\* fetch for the reference under the cursor.
LoadStep == pc = "loadImages" /\ loads' # loads

\* The buffer the map holds for a reference: None when there is none.
BufferOf(map, ref) == MapGet(map, ref \o <<BufferSuffix>>)

\* C12: no iteration of the loading loop, for a reference of any class
\* and any outcome of its read or fetch, ends the pass or records an
\* error: the loop goes on to the next entry and then to the token loop.
\* The iteration either stores the buffer it got under the reference or
\* leaves the map as it was, the reference without bytes.
C12_ResolutionNeverThrows ==
  /\ [](pc \in {"loadImages", "buildElements"} => error = None)
  /\ [][pc = "loadImages" =>
          /\ pc' \in {"loadImages", "buildElements"}
          /\ error' = None
          /\ LoadStep =>
               /\ cursor' = cursor + 1
               /\ \/ imageMap' = imageMap
                  \/ BufferOf(imageMap', imageMap[cursor].key)
                       \in {Some(BytesOf(imageMap[cursor].key)), Some(<<>>)}]_vars

\* The token loop has begun after the reads of a local asset and of a
\* remote reference both failed: neither reference has bytes.
C12_Witness ==
  /\ pc = "buildElements"
  /\ loads = <<LocalAssetRef, RemoteRef>>
  /\ BufferOf(imageMap, LocalAssetRef) = None
  /\ BufferOf(imageMap, RemoteRef) = None
  /\ error = None

\* The references of the image tokens the token loop meets in a token.
RefsOf(token) == {ImagesOf(token)[k].href : k \in 1..Len(ImagesOf(token))}

\* The element is a paragraph that shows an embedded image.
ShowsImage(element) == "children" \in DOMAIN element /\ IsEmbeddedImage(element)

\* C13: in one pass no reference is read or fetched twice, however many
\* image tokens carry it, and reads and fetches happen in the loading
\* loop only; an image the token loop embeds shows the bytes the map
\* holds under the exact reference of its token, which was loaded.
C13_AtMostOneFetch ==
  /\ [](\A i, j \in 1..Len(loads) : loads[i] = loads[j] => i = j)
  /\ [][/\ loads' # loads => pc = "loadImages" /\ Len(loads') = Len(loads) + 1
        /\ TokenStep =>
             \A e \in 1..Len(Appended) :
               ShowsImage(Appended[e]) =>
                 \E ref \in RefsOf(tokens[done + 1]) :
                   /\ \E i \in 1..Len(loads) : loads[i] = ref
                   /\ BufferOf(imageMap, ref) = Some(Appended[e].children[1].data)
                   /\ Appended[e].children[1].data = BytesOf(ref)]_vars

\* The pass has returned for a document whose two image tokens carry the
\* same reference: one read, and both images show its bytes.
C13_Witness ==
  /\ call.fn = "markdownToParagraphs" /\ pc = "returned"
  /\ tokens = <<ImageTok, ImageTok>>
  /\ loads = <<PathRef>>
  /\ Len(ret) = 2
  /\ \A e \in 1..2 : IsEmbeddedImage(ret[e]) /\ ret[e].children[1].data = BytesOf(PathRef)

\* C14 (as stated): a pass always eventually finishes, by returning or by
\* failing, even when the host of a remote image never answers.
C14_PassFinishes == <>(pc \in {"returned", "threw"})

\* The references the loading loop resolves: the keys of the map that are
\* not buffer keys.
References(map) == {map[k].key : k \in {j \in 1..Len(map) : ~IsBufferKey(map[j].key)}}

CellTokens(token) ==
  (IF token.header = None THEN <<>>
   ELSE Join([k \in 1..Len(token.header[1]) |->
                IF token.header[1][k].tokens = None THEN <<>>
                ELSE token.header[1][k].tokens[1]]))
  \o (IF token.rows = None THEN <<>>
      ELSE Join([r \in 1..Len(token.rows[1]) |->
                   Join([k \in 1..Len(token.rows[1][r]) |->
                           IF token.rows[1][r][k].tokens = None THEN <<>>
                           ELSE token.rows[1][r][k].tokens[1]])]))

\* The image tokens anywhere in the trees of a sequence of tokens: below
\* tokens, below the items of a list, and in the cells of a table.
RECURSIVE ImagesIn(_)
ImagesIn(toks) ==
  Join([k \in 1..Len(toks) |->
          (IF toks[k].type = "image" THEN <<toks[k]>> ELSE <<>>)
          \o ImagesIn(ChildTokens(toks[k]))
          \o ImagesIn(CellTokens(toks[k]))])

\* C16 (as stated): after the scan of the tokens the map has an entry for
\* the reference of every image token of the token tree, whatever holds
\* the image: a paragraph, a heading, a blockquote, a list item or a
\* table cell.
C16_PreScanCollectsAll ==
  pc \in {"loadImages", "buildElements", "returned"} =>
    \A k \in 1..Len(ImagesIn(tokens)) :
      ImagesIn(tokens)[k].href # <<>> => MapHas(imageMap, ImagesIn(tokens)[k].href)

\* The element is the one the claim asks for an image token: a paragraph
\* that shows the bytes held for the token's reference when there are
\* some, and otherwise the placeholder with the alt text and the reference.
IsElementOf(element, imageToken) ==
  /\ "children" \in DOMAIN element
  /\ Len(element.children) = 1
  /\ IF Unresolved(imageToken)
     THEN /\ "text" \in DOMAIN element.children[1]
          /\ element.children[1].text
               = PlaceholderText(AltText(imageToken), imageToken.href)
     ELSE /\ "data" \in DOMAIN element.children[1]
          /\ Some(element.children[1].data) = BufferOf(imageMap, imageToken.href)

\* C17 (as stated): when the pass returns, every image token of the token
\* tree, in a paragraph, a list item, a blockquote or a table cell, has
\* its element in the output: the embedded image, or the placeholder.
C17_EveryImageHasElement ==
  (call.fn = "markdownToParagraphs" /\ pc = "returned") =>
    \A k \in 1..Len(ImagesIn(tokens)) :
      \E e \in 1..Len(ret) : IsElementOf(ret[e], ImagesIn(tokens)[k])

\* ------------------------------------------------------------------------
\* Properties of the formula transcoder (SpecPure)
\* ------------------------------------------------------------------------

\* C18 (as stated): for every command of the command table,
\* latexToUnicodeText of the string that is exactly the command returns
\* the one character the table maps the command to.
C18_CommandsMatchedExactly ==
  Returned("latexToUnicodeText") =>
    \A k \in 1..Len(latexToUnicode) :
      call.args.latex = latexToUnicode[k][1] => ret = <<latexToUnicode[k][2]>>

\* C19 (as stated): for every non-empty argument A without braces,
\* commands, script marks or blanks, latexToUnicodeText of \sqrt{A}
\* returns the root sign followed by A in parentheses.
C19_SqrtFlattened ==
  Returned("latexToUnicodeText") =>
    \A a \in SqrtArguments :
      call.args.latex = SqrtOf(a) => ret = <<"U+221A", "(">> \o a \o <<")">>

\* C20 (as stated): for every input, the output of latexToUnicodeText
\* holds no brace character.
C20_NoBraceLeft ==
  Returned("latexToUnicodeText") =>
    \A k \in 1..Len(ret) : ret[k] \notin {"{", "}"}

\* ------------------------------------------------------------------------
\* Properties of the combined scanner and of the inline tokens (SpecPure)
\* ------------------------------------------------------------------------

\* The matches of the four patterns that start at position i of text.
MatchesAt(text, i) ==
  {MatchBlockMath(text, i), MatchInlineMath(text, i), MatchCode(text, i),
   MatchBold(text, i)} \ {NoMatch}

\* The first position of text where one of the four patterns matches is i.
FirstMatchIsAt(text, i) ==
  /\ MatchesAt(text, i) # {}
  /\ \A k \in 1..(i - 1) : MatchesAt(text, k) = {}

\* Where the run of the first match stands in the result: after the run of
\* the plain text before it, when there is some.
RunIndexOf(i) == IF i > 1 THEN 2 ELSE 1

\* The paragraph style of the call.
CallStyle == ParaStyleOf(call.args.formatSettings)

\* C21: parseTextWithFormat takes the match that starts first: the text
\* before the first position with a match is one plain run, the match is
\* the next run, and the runs after it are those of the scan that resumes
\* at the end of the match.  So a bold span that starts first is one bold
\* run with its whole content, dollar signs included, and the scan goes on
\* behind the span: a dollar sign of the span starts no formula.
C21_EarliestMatchFirst ==
  Returned("parseTextWithFormat") =>
    \A i \in 1..Len(call.args.text) :
      FirstMatchIsAt(call.args.text, i) =>
        /\ Len(ret) >= RunIndexOf(i)
        /\ i > 1 => /\ ret[1].text = SubSeq(call.args.text, 1, i - 1)
                    /\ RunKind(ret[1]) = "plain"
        /\ \E m \in MatchesAt(call.args.text, i) :
             /\ ret[RunIndexOf(i)] = MatchRun(m, call.args.baseConfig, CallStyle)
             /\ SubSeq(ret, RunIndexOf(i) + 1, Len(ret))
                  = ScanRuns(call.args.text, m.last, call.args.baseConfig, CallStyle)
        /\ MatchBold(call.args.text, i).alt # 0 =>
             /\ RunKind(ret[RunIndexOf(i)]) = "bold"
             /\ ret[RunIndexOf(i)].text = MatchBold(call.args.text, i).group

\* The scanner has returned for "**a$b** $c$": the bold run holds the
\* dollar sign, and the formula behind the span is the third run.
C21_Witness ==
  /\ Returned("parseTextWithFormat")
  /\ call.args.text = BoldWithDollar
  /\ Len(ret) = 3
  /\ RunKind(ret[1]) = "bold" /\ ret[1].text = <<"a", "$", "b">>
  /\ RunKind(ret[3]) = "math" /\ ret[3].text = <<"c">>

\* The run stands for the span of text from position from + 1 to position
\* to: a plain run with the characters of the span, or the run of a match
\* of one of the four patterns that takes up exactly the span.
IsRunOfSpan(run, text, from, to) ==
  \/ run = PlainRun(SubSeq(text, from + 1, to), call.args.baseConfig, CallStyle)
  \/ \E m \in MatchesAt(text, from + 1) :
       m.last = to /\ run = MatchRun(m, call.args.baseConfig, CallStyle)

\* The runs from the k-th on stand, in order, for spans that follow one
\* another without a gap or an overlap from position from + 1 to the end
\* of the text.
RECURSIVE CoversFrom(_, _, _, _)
CoversFrom(runs, k, text, from) ==
  IF k > Len(runs)
  THEN from = Len(text)
  ELSE \E to \in (from + 1)..Len(text) :
         IsRunOfSpan(runs[k], text, from, to) /\ CoversFrom(runs, k + 1, text, to)

\* No pattern matches anywhere in the text.
NothingMatches(text) == \A i \in 1..Len(text) : MatchesAt(text, i) = {}

\* C22: the runs of parseTextWithFormat stand, in order, for spans of the
\* text that do not overlap, follow one another without a gap, and cover
\* the text from its first to its last character; when nothing matches,
\* the result is exactly one run with the whole text.
C22_RunsCoverText ==
  Returned("parseTextWithFormat") =>
    /\ call.args.text # <<>> => CoversFrom(ret, 1, call.args.text, 0)
    /\ NothingMatches(call.args.text) =>
         ret = <<PlainRun(call.args.text, call.args.baseConfig, CallStyle)>>

\* The scanner has returned four runs for "a**$a**a$a": plain text, the
\* bold span, and trailing text behind it.
C22_Witness ==
  /\ Returned("parseTextWithFormat")
  /\ call.args.text = <<"a", "*", "*", "$", "a", "*", "*", "a", "$", "a">>
  /\ Len(ret) = 3
  /\ ret[1].text = <<"a">> /\ ret[2].text = <<"$", "a">>
  /\ ret[3].text = <<"a", "$", "a">>

\* The kinds the switch of parseInlineTokens has a case for.
RecognizedKinds == {"text", "strong", "em", "del", "codespan", "link", "br"}

\* C23 (as stated): for one inline token of an unrecognized kind,
\* parseInlineTokens returns exactly one plain run, whose text is the
\* token's text, or its raw source when it has no text.
C23_UnknownKindOnePlainRun ==
  (/\ Returned("parseInlineTokens")
   /\ Len(call.args.tokens) = 1
   /\ call.args.tokens[1].type \notin RecognizedKinds) =>
    ret = <<PlainRun(TextOrRaw(call.args.tokens[1]), call.args.baseConfig, CallStyle)>>

\* The colour a blockquote gives its runs.
QuoteColour == "666666"

\* C24 (as stated): every run of every paragraph emitted for a blockquote
\* is italic and has the quote colour.
C24_QuoteRunsItalicMuted ==
  Returned("createBlockquoteParagraphs") =>
    \A p \in 1..Len(ret) : \A r \in 1..Len(ret[p].children) :
      ret[p].children[r].italics /\ ret[p].children[r].color = QuoteColour

\* ------------------------------------------------------------------------
\* Properties of two calls in flight (SpecTwo)
\* ------------------------------------------------------------------------

\* The locals of the first call's pass, and what it returns.
FirstLocals == <<tokens, imageMap, cursor, loads, elements, done, buffer, ret>>

\* Every buffer the map holds is one the pass with these loads stored: its
\* key is a reference the pass itself issued a read or fetch for.
OwnBuffers(map, issued) ==
  \A k \in 1..Len(map) :
    IsBufferKey(map[k].key) =>
      \E i \in 1..Len(issued) : map[k].key = issued[i] \o <<BufferSuffix>>

\* The elements are those of the tokens under the map, for some outcomes
\* of the embedding.
BuiltFrom(built, toks, map, formatSettings) ==
  \E embeds \in [1..Len(toks) -> BOOLEAN] :
    built = Join([k \in 1..Len(toks) |->
                    TokenElements(toks[k], map, formatSettings, embeds[k])])

\* C26: two calls of convertToFormat whose steps interleave share neither
\* the image map nor the element list.  A step of one call leaves the
\* locals and the result of the other as they are; each map holds only
\* buffers its own call stored; and the document each call packs is built
\* from its own tokens under its own map.
C26_NoSharedPassState ==
  /\ [][(second' # second) => UNCHANGED FirstLocals]_vars
  /\ [][(FirstLocals' # FirstLocals) => UNCHANGED second]_vars
  /\ [](OwnBuffers(imageMap, loads) /\ OwnBuffers(second.imageMap, second.loads))
  /\ [](buffer # None => BuiltFrom(buffer[1].document, tokens, imageMap, None))
  /\ [](second.buffer # None =>
          BuiltFrom(second.buffer[1].document, second.tokens, second.imageMap, None))

\* Both calls have returned for the same image: the second one read its
\* bytes and embedded it, the first one could not read it and its
\* document shows the placeholder.
C26_Witness ==
  /\ pc = "returned" /\ second.pc = "returned"
  /\ tokens = <<ImageTok>> /\ second.tokens = <<ImageTok>>
  /\ BufferOf(imageMap, PathRef) = None
  /\ BufferOf(second.imageMap, PathRef) = Some(BytesOf(PathRef))
  /\ IsPlaceholderFor(ret.buffer[1].document[1], PathRef)
  /\ IsEmbeddedImage(second.ret.buffer[1].document[1])

\* ------------------------------------------------------------------------
\* Properties of the token loop (SpecM2P)
\* ------------------------------------------------------------------------

\* The token is a paragraph with an image among its inline children, and
\* the text of every child is a string.
IsImageParagraph(token) ==
  /\ token.type = "paragraph"
  /\ token.tokens # None
  /\ \E k \in 1..Len(token.tokens[1]) : token.tokens[1][k].type = "image"
  /\ \A k \in 1..Len(token.tokens[1]) : token.tokens[1][k].text # NonString

\* The element is the image or a placeholder of the image child: the
\* embedded bytes or the placeholder with the reference, or the
\* placeholder with the alt text alone when the image cannot be embedded.
IsImageElementOf(element, imageToken) ==
  \/ IsElementOf(element, imageToken)
  \/ element = GreyParagraph(EmbedFailedText(AltText(imageToken)))

\* The text child has text that is not blank.
HasText(child) == child.type = "text" /\ trim(child.text) # <<>>

\* The elements from the a-th on are, in order, those of the children from
\* the k-th on: one per image, one paragraph per text child with text.
RECURSIVE EmittedFor(_, _, _, _)
EmittedFor(appended, a, children, k) ==
  IF k > Len(children) THEN a > Len(appended)
  ELSE IF children[k].type = "image"
  THEN /\ a <= Len(appended)
       /\ IsImageElementOf(appended[a], children[k])
       /\ EmittedFor(appended, a + 1, children, k + 1)
  ELSE IF HasText(children[k])
  THEN /\ a <= Len(appended)
       /\ appended[a] = createParagraphElement(
                           Token([raw |-> children[k].text, text |-> children[k].text]),
                           call.args.formatSettings)
       /\ EmittedFor(appended, a + 1, children, k + 1)
  ELSE EmittedFor(appended, a, children, k + 1)

\* C25: the step of the token loop for a paragraph with an image child
\* appends, in the order of the children, one image or placeholder
\* element per image child and one paragraph per text child whose text
\* is not blank, and nothing else.
C25_ImageParagraphInOrder ==
  [][(TokenStep /\ IsImageParagraph(tokens[done + 1])) =>
       EmittedFor(Appended, 1, tokens[done + 1].tokens[1], 1)]_vars

\* The pass has returned for the paragraph of text, image, blank, strong,
\* image, text: four elements.
C25_Witness ==
  /\ call.fn = "markdownToParagraphs" /\ pc = "returned"
  /\ tokens = <<MixedParagraphTok>>
  /\ Len(ret) = 4
  /\ ShowsImage(ret[2])
  /\ IsPlaceholderFor(ret[3], LocalAssetRef)

\* s is a prefix of t.
IsPrefix(s, t) == Len(s) <= Len(t) /\ SubSeq(t, 1, Len(s)) = s

\* C27: the element sequence of a pass only grows at its end, in the order
\* of the top-level tokens.  Every step of the token loop leaves the
\* elements already there as a prefix of the new sequence; at every
\* moment the sequence is the elements of the first token, then those of
\* the second, and so on up to the last token done; and the pass returns
\* the sequence it built.
C27_AppendOnlyInTokenOrder ==
  /\ [][(pc = "buildElements") => IsPrefix(elements, elements')]_vars
  /\ [](pc \in {"buildElements", "returned"} =>
          BuiltFrom(elements, SubSeq(tokens, 1, done), imageMap, call.args.formatSettings))
  /\ []((call.fn = "markdownToParagraphs" /\ pc = "returned") => ret = elements)

\* The pass has returned for a blockquote followed by a list: the quote's
\* paragraph comes first, the list's items after it.
C27_Witness ==
  /\ call.fn = "markdownToParagraphs" /\ pc = "returned"
  /\ tokens = <<QuoteTok, ImageListTok>>
  /\ Len(ret) >= 2
  /\ <<ret[1]>> = createBlockquoteParagraphs(QuoteTok, call.args.formatSettings)
  /\ SubSeq(ret, 2, Len(ret))
       = createListItemParagraphs(ImageListTok, 0, call.args.formatSettings)

\* The number of reads and fetches issued for the reference.
Attempts(ref) == Cardinality({i \in 1..Len(loads) : loads[i] = ref})

\* The loading loop is at an entry whose key ends with the buffer suffix.
AtBufferKey ==
  pc = "loadImages" /\ cursor <= Len(imageMap) /\ IsBufferKey(imageMap[cursor].key)

\* C28 (as stated): when every read and fetch ends, the loading loop ends,
\* and it has then attempted every reference collected from the tokens
\* exactly once; an entry with a buffer key is visited without a load and
\* without an insertion.
C28_LoopAttemptsEachOnce ==
  /\ <>(pc \in {"buildElements", "returned"})
  /\ [](pc \in {"buildElements", "returned"} =>
          \A k \in 1..Len(CollectedPaths(tokens)) :
            Attempts(CollectedPaths(tokens)[k]) = 1)
  /\ [][AtBufferKey => (loads' = loads /\ imageMap' = imageMap /\ cursor' = cursor + 1)]_vars

\* ------------------------------------------------------------------------
\* Properties of the PDF branch (Spec)
\* ------------------------------------------------------------------------

\* The lines of the call's Markdown.
MdLines == Split(call.args.mdContent, "\n")

\* Line k is a fence line.
IsFenceLine(k) == HasAt(MdLines[k], 1, Fence)

\* Line k follows an opening fence line: it is no fence line, and the
\* number of fence lines before it is odd.
InsideFence(k) ==
  /\ ~IsFenceLine(k)
  /\ Cardinality({j \in 1..(k - 1) : IsFenceLine(j)}) % 2 = 1

\* The lines inside fences, in order, each with its line end.
FencedText ==
  Join([k \in 1..Len(MdLines) |-> IF InsideFence(k) THEN MdLines[k] \o <<"\n">> ELSE <<>>])

\* What the document draws as code-block content, in order.
CodeDrawn(document) ==
  Join([k \in 1..Len(document) |->
          IF document[k].op = "code" THEN document[k].text ELSE <<>>])

\* The lines outside fences that are no fence lines.
OutsideLines == {k \in 1..Len(MdLines) : ~IsFenceLine(k) /\ ~InsideFence(k)}

\* C29 (as stated): in the PDF branch, the lines that follow an opening
\* fence line are drawn exactly once as code-block content, whether the
\* fence is closed or still open at the end of the input, and none of
\* them is drawn as a heading, a list item, a quote or a paragraph: the
\* other drawing operations are one per line outside the fences.
C29_FencedLinesDrawnAsCode ==
  (Converts("pdf") /\ buffer # None) =>
    /\ CodeDrawn(buffer[1].document) = FencedText
    /\ Cardinality({k \in 1..Len(buffer[1].document) : buffer[1].document[k].op # "code"})
         = Cardinality(OutsideLines)

\* ------------------------------------------------------------------------
\* processHomework: the order of the steps and of the callbacks
\* ------------------------------------------------------------------------

\* What step k puts in the log when it succeeds: its call, whose prompt
\* quotes the two earlier answers when it is the last one, and the callback
\* with its result when a callback was given.
StepEvents(k) ==
  <<LlmCall(StepNames[k],
            IF k = 3 THEN <<AnswerOf("format"), AnswerOf("questions")>> ELSE <<>>)>>
  \o (IF call.args.onStepComplete
      THEN <<Callback(StepResult(StepNames[k], AnswerOf(StepNames[k])))>>
      ELSE <<>>)

\* The log of a call whose three steps succeed.
ThreeStepLog == StepEvents(1) \o StepEvents(2) \o StepEvents(3)

\* The log of a direct generation that succeeds: one call, then the three
\* callbacks.
DirectLog ==
  <<LlmCall("direct", <<>>)>>
  \o (IF call.args.onStepComplete
      THEN <<Callback(DirectResults[1]), Callback(DirectResults[2]), Callback(DirectResults[3])>>
      ELSE <<>>)

\* The number of callbacks in the log.
CallbackCount == Cardinality({k \in 1..Len(homework.log) : homework.log[k].kind = "callback"})

\* The number of calls of the model in the log.
LlmCount == Cardinality({k \in 1..Len(homework.log) : homework.log[k].kind = "llm"})

\* The order of the steps, against the log a successful call is expected
\* to write: the log is always a beginning of it, a step is started only
\* when every earlier result has had its callback, a blank prompt makes
\* no call, a returned call has written all of it and has three results,
\* and nothing is started or called back once the call has failed.
StepsInOrder(expected) ==
  /\ IsPrefix(homework.log, expected)
  /\ call.args.onStepComplete => CallbackCount = Len(homework.results)
  /\ ~call.args.onStepComplete => CallbackCount = 0
  /\ IsBlank(call.args.prompt) => homework.log = <<>> /\ pc \in {"processHomework", "threw"}
  /\ pc = "returned" => homework.log = expected /\ Len(ret) = 3
                        /\ [k \in 1..3 |-> ret[k].step] = StepNames
  /\ pc = "threw" /\ ~IsBlank(call.args.prompt)
       => homework.log # <<>> /\ homework.log[Len(homework.log)].kind = "llm"

\* C30: processHomework with a non-blank prompt and, in the revision with
\* the direct generation, a non-blank file content runs its three steps in
\* the order format, questions, final, each callback right after its step
\* and before the next one; with a blank file content that revision makes
\* one call and then the three callbacks; a step that fails ends the call
\* with no later step and no later callback; a blank prompt fails before
\* any call of the model.
C30_StepsInOrderOrDirect ==
  /\ [](StepsInOrder(IF TakesDirect THEN DirectLog ELSE ThreeStepLog))
  /\ [][(pc = "threw") => UNCHANGED homework]_vars

\* A call with a callback whose three steps succeeded and that returned,
\* and the log shows call, callback, call, callback, call, callback.
C30_Witness ==
  /\ pc = "returned"
  /\ call.args.onStepComplete
  /\ ~TakesDirect
  /\ homework.log = ThreeStepLog
  /\ Len(homework.log) = 6
  /\ LlmCount = 3

\* C30 as stated: every call with a non-blank prompt runs the three steps
\* in order, one callback after each.
C30_ThreeStepsInOrder ==
  /\ [](StepsInOrder(ThreeStepLog))
  /\ [][(pc = "threw") => UNCHANGED homework]_vars
====
